---- MODULE Spec2Model ----
(***************************************************************************)
(* A model of the CSO / environmental-justice attribution and aggregation  *)
(* pipeline of src/analysis/NECIR_CSO_map.py (CSOAnalysis.run_analysis and *)
(* the module-level functions it calls).                                   *)
(*                                                                         *)
(* Geometry.  The block groups are NumBG closed intervals tiling a strip:  *)
(* block group b covers [2(b-1), 2b] and has its centroid at 2b-1.  An     *)
(* outfall sits at an integer position of the strip, so an odd position is *)
(* interior to exactly one block group and an even position lies on the    *)
(* boundary shared by two neighbours (contained by neither, at distance    *)
(* zero from both).  Towns and watersheds are intervals of the same strip. *)
(*                                                                         *)
(* Numbers.  Float columns hold naturals or NaN; NaN is the sentinel -1    *)
(* and a null key (pandas NaN / Python None in an identifier column) is    *)
(* the sentinel 0.  A quotient is kept exact as the pair <<num, den>>; the  *)
(* float 0/0 is NaN and n/0 with n > 0 is inf, as numpy divides.           *)
(***************************************************************************)
EXTENDS Integers, Sequences, FiniteSets, TLC

\* ------------------------------------------------------------------ bounds
NumEvents == 2      \* at most this many outfall records are loaded
NumBG     == 2      \* block groups on the strip
Radius    == 1      \* the buffer radius of buffered mode, in strip units
MaxRows   == 3      \* rows of one region group handed to pop_weighted_average
MaxPolys  == 2      \* municipality polygons in the label-propagation runs
MaxSample == 2      \* rows handed to one call of weight_mean
MaxN      == 2      \* resamples asked of weight_mean (the code's default: 1000)
Precision == 3      \* mantissa bits of a float in weight_mean (float64: 53)
MaxReports == 2     \* discharge reports handed to transform_data_cso
MaxCalls  == 2      \* distinct calls kept in the joblib store
MaxLen    == 2      \* characters in a string cell of the SQL table
MaxSqlRows == 2     \* rows read_sql_query returns
MaxRegions == 3     \* regions on a comparison chart
MaxFitEvents == 1                \* discharge events of a run that fits the regression

\* ------------------------------------------------------------- value sets
NaN  == -1
None == 0
IsNaN(v) == v = NaN

Vols      == {NaN, 1, 2}            \* discharge volume values
Counts    == {1}                    \* discharge count values in the pipeline
PopValues == {NaN, 0, 1, 2}         \* ACSTOTPOP, in units of 50 persons
\* one row's (MINORPCT, LOWINCPCT, LINGISOPCT), in tenths; every column
\* ranges over {NaN, 2, 4, 9}
IndTriples == { <<2, 4, NaN>>, <<9, NaN, 2>>, <<4, 2, 9>>, <<NaN, 9, 4>> }

BlockGroups == 1..NumBG
Positions   == 0..(2 * NumBG)
UNKNOWN     == "[UNKNOWN]"
NullLabel   == "<NA>"               \* a null in a Town / Watershed column
EJ_COLS     == <<"MINORPCT", "LOWINCPCT", "LINGISOPCT">>

VARIABLES
    pc,                 \* position in run_analysis / which function has run
    err,                \* the exception that ended the run, or "none"
    log,                \* the messages handed to logging, in order
    cbg_smooth_radius,  \* self.cbg_smooth_radius: None (exact) or the radius
    cso_loaded,         \* the event table load_data returned (the argument)
    ejs_loaded,         \* the demographic table load_data returned
    geo_towns_df,       \* municipality polygons, in table order
    geo_watersheds_df,  \* watershed polygons, in table order
    geo_blockgroups_df, \* block-group polygons, by GEOID
    data_cso,           \* self.data_cso
    data_ejs,           \* self.data_ejs
    data_ins_g_bg,      \* per block group: discharge volume and count
    data_ins_g_muni_j,  \* per Town
    data_ins_g_ws_j,    \* per Watershed
    data_egs_merge,     \* demographic rows with their discharge sums
    df_watershed_level, \* per Watershed: population-weighted indicators
    df_town_level,      \* per Town
    wm_args,            \* weight_mean: the arguments x, weights and N of the call
    wm_x,               \* weight_mean: x, once the NaN rows are removed
    wm_weights,         \* weight_mean: weights, once the NaN rows are removed
    wm_avgs,            \* weight_mean: avgs
    wm_i,               \* weight_mean: resamples drawn so far (the loop's i)
    wm_sel,             \* weight_mean: sel of the latest resample
    wm_ret,             \* weight_mean: the returned (mean, std)
    data_cso_filtered_reports,  \* EEA DP: the reports handed to transform_data_cso
    df_lat_long_cso,    \* EEA DP: the state outfall list, by Outfall ID
    df_per_outfall,     \* EEA DP: the per-outfall table transform_data_cso returns
    stdout,             \* EEA DP: what transform_data_cso printed, in order
    memory,             \* the joblib store: the result kept for each cached call
    cache_call,         \* the latest call of a @memory.cache function
    cache_ret,          \* what that call returned
    written,            \* the files that call wrote, with their content
    sql_rows,           \* the rows read_sql_query returned to load_data_cso
    stan_args,          \* fit_stan_model: the arguments col and level_col
    stan_dat,           \* fit_stan_model: the data handed to stan.build
    chart_x,            \* make_chart_ej_cso_comparison: x, one value per region
    x_bins,             \* make_chart_ej_cso_comparison: the bin edges
    x_bin_id,           \* make_chart_ej_cso_comparison: the bin of each region
    fact_file,          \* the lines of the fact file
    disk,               \* the files run_analysis has written, with their content
    make_maps,          \* self.make_maps
    make_charts,        \* self.make_charts
    make_regression     \* self.make_regression

vars == << pc, err, log, cbg_smooth_radius, cso_loaded, ejs_loaded,
           geo_towns_df, geo_watersheds_df, geo_blockgroups_df, data_cso,
           data_ejs,
           data_ins_g_bg, data_ins_g_muni_j, data_ins_g_ws_j, data_egs_merge,
           df_watershed_level, df_town_level,
           wm_args, wm_x, wm_weights, wm_avgs, wm_i, wm_sel, wm_ret,
           data_cso_filtered_reports, df_lat_long_cso, df_per_outfall, stdout,
           memory, cache_call, cache_ret, written, sql_rows,
           stan_args, stan_dat, chart_x, x_bins, x_bin_id,
           fact_file, disk, make_maps, make_charts, make_regression >>

\* the state of the functions called on their own
run_vars == << fact_file, disk, make_maps, make_charts, make_regression >>

call_vars == << sql_rows, stan_args, stan_dat, chart_x, x_bins, x_bin_id,
               fact_file, disk, make_maps, make_charts, make_regression >>

cache_vars == << memory, cache_call, cache_ret, written >>

eea_vars == << data_cso_filtered_reports, df_lat_long_cso, df_per_outfall, stdout >>

wm_vars == << wm_args, wm_x, wm_weights, wm_avgs, wm_i, wm_sel, wm_ret >>

\* ---------------------------------------------------------------- helpers
Range(s) == { s[i] : i \in DOMAIN s }

RECURSIVE SeqSum(_)
SeqSum(s) == IF s = << >> THEN 0 ELSE Head(s) + SeqSum(Tail(s))

\* pandas Series.sum / GroupBy.sum with skipna=True: NaN entries are left
\* out; an all-NaN or empty column sums to 0
SumSkipNa(s) == SeqSum(SelectSeq(s, LAMBDA v : ~IsNaN(v)))

\* the column col of the table s
Column(s, col) == [i \in DOMAIN s |-> s[i][col]]

\* the ascending enumeration of a finite set of integers
RECURSIVE SortedSeq(_)
SortedSeq(S) ==
    IF S = {} THEN << >>
    ELSE LET m == CHOOSE a \in S : \A b \in S : a <= b
         IN  <<m>> \o SortedSeq(S \ {m})

RECURSIVE Flatten(_)
Flatten(ss) == IF ss = << >> THEN << >> ELSE Head(ss) \o Flatten(Tail(ss))

\* numpy float division, exact: 0/0 is NaN, n/0 is inf (a warning, no raise)
NaNQ == << 0, 0 >>
InfQ == << 1, 0 >>
\* a division that guards the zero denominator and answers 0
NpDivideZero(n, d) == IF d # 0 THEN << n, d >> ELSE << 0, 1 >>
NpDivide(n, d) == IF d # 0 THEN << n, d >> ELSE IF n = 0 THEN NaNQ ELSE InfQ

\* ---------------------------------------------------------------- geometry
\* shapely distance between the point at p and block group b's polygon
Dist(p, b) ==
    IF p < 2 * (b - 1) THEN 2 * (b - 1) - p
    ELSE IF p > 2 * b THEN p - 2 * b
    ELSE 0

Centroid(b) == 2 * b - 1

\* a town or watershed polygon: its TOWN / NAME and the interval it covers
Polygon(n, l, h) == [name |-> n, lo |-> l, hi |-> h]

\* geo_blockgroups_df: block group b covers [2(b-1), 2b]
BlockGroupTable ==
    [b \in BlockGroups |-> [GEOID |-> b, lo |-> 2 * (b - 1), hi |-> 2 * b]]

\* the polygon overlaps the block group whose centroid is p (an 'intersects'
\* test on the block group's polygon instead of 'contains' on its centroid)
IntervalOverlaps(poly, p) == poly.lo < p + 1 /\ p - 1 < poly.hi

\* polygon.contains(point): the point lies in the interior
IntervalContains(poly, p) == poly.lo < p /\ p < poly.hi

\* ------------------------------------------------- region assignment resolver
\* no restriction: every block group of the geometry file is a candidate
AllBGs(ejs) == BlockGroups

\* utm_bg_df[utm_bg_df['GEOID'].isin(data_ejs['ID'])]: the block groups that
\* have a demographic record
CandidateBGs(ejs) == { b \in BlockGroups : \E i \in DOMAIN ejs : ejs[i].ID = b }

\* the candidates at smallest distance from the point at p (every one of them
\* when several are equidistant)
NearestBGs(p, cand) == { b \in cand : \A c \in cand : Dist(p, b) <= Dist(p, c) }

ExactRow(ev, g) ==
    [cso_id |-> ev.cso_id, latlon |-> ev.latlon,
     DischargeVolume |-> ev.DischargeVolume,
     DischargeCount |-> ev.DischargeCount, GEOID |-> g]

\* utm_cso_df.sjoin_nearest(utm_bg_df, how='left'): for every event, in
\* order, one row per nearest candidate; an event with several equidistant
\* nearest candidates gets one row for each, an event with no candidate keeps
\* one row with a null GEOID
SjoinNearest(cso, cand) ==
    Flatten([i \in DOMAIN cso |->
        LET near == SortedSeq(NearestBGs(cso[i].latlon, cand))
        IN  IF near = << >> THEN << ExactRow(cso[i], None) >>
            ELSE [j \in DOMAIN near |-> ExactRow(cso[i], near[j])]])

\* the buffer of radius r around the point at p intersects block group b
BufferIntersects(p, b, r) == Dist(p, b) <= r

BufferedRow(b, ev) ==
    [GEOID |-> b, cso_id |-> ev.cso_id, latlon |-> ev.latlon,
     DischargeVolume |-> ev.DischargeVolume,
     DischargeCount |-> ev.DischargeCount]

NullEvent == [cso_id |-> None, latlon |-> NaN,
              DischargeVolume |-> NaN, DischargeCount |-> NaN]

\* utm_bg_df.sjoin(utm_cso_buf_df, how='left', predicate='intersects'): for
\* every candidate block group, one row per event whose buffer intersects it,
\* or one row of nulls when no buffer does
SjoinIntersects(cso, cand, r) ==
    LET bgs == SortedSeq(cand)
    IN  Flatten([k \in DOMAIN bgs |->
            LET hits == SelectSeq(cso,
                          LAMBDA ev : BufferIntersects(ev.latlon, bgs[k], r))
            IN  IF hits = << >> THEN << BufferedRow(bgs[k], NullEvent) >>
                ELSE [j \in DOMAIN hits |-> BufferedRow(bgs[k], hits[j])]])

\* utm_merge_df.groupby('cso_id')['GEOID'].count(), reindexed on a row's
\* cso_id: the number of rows the event appears in; NaN on a row of nulls
CsoDuplication(merge, id) ==
    IF id = None THEN NaN
    ELSE Len(SelectSeq(merge, LAMBDA row : row.cso_id = id))

\* np.average(values, weights=weights) on equally long columns: NaN when a
\* value or a weight is NaN, else sum(v * w) / sum(w)
NpAverage(values, weights) ==
    IF \E i \in DOMAIN values : IsNaN(values[i]) \/ IsNaN(weights[i]) THEN NaNQ
    ELSE << SeqSum([i \in DOMAIN values |-> values[i] * weights[i]]),
            SeqSum(weights) >>

\* smooth_discharge(x, avg_cols) for the rows x of one block group
smooth_discharge(rows) ==
    [DischargeVolume |->
        NpAverage(Column(rows, "DischargeVolume"),
                  Column(rows, "cso_duplication")),
     DischargeCount |->
        NpAverage(Column(rows, "DischargeCount"),
                  Column(rows, "cso_duplication")),
     num_buffered_csos |-> Len(rows)]

\* the rows returned in buffered mode: the merge with cso_duplication added
\* and latitude / longitude overwritten by the block group's centroid
BufferedResult(cso, cand, r) ==
    LET merge == SjoinIntersects(cso, cand, r)
    IN  [i \in DOMAIN merge |->
            [GEOID |-> merge[i].GEOID, cso_id |-> merge[i].cso_id,
             latlon |-> Centroid(merge[i].GEOID),
             DischargeVolume |-> merge[i].DischargeVolume,
             DischargeCount |-> merge[i].DischargeCount,
             cso_duplication |-> CsoDuplication(merge, merge[i].cso_id)]]

\* utm_merge_df.groupby('GEOID').apply(smooth_discharge, discharge_cols)
SmoothedDischarge(result) ==
    [b \in { result[i].GEOID : i \in DOMAIN result } |->
        smooth_discharge(SelectSeq(result, LAMBDA row : row.GEOID = b))]

LogMsg(m, k) == [msg |-> m, key |-> k]

\* a message that also states a number N
LogCount(m, k, n) == [msg |-> m, key |-> k, count |-> n]

\* _assign_cso_data_to_census_blocks_with_geopandas(data_cso, data_ejs,
\* geo_blockgroups_df, use_radius): the returned table, or the exception
AssignResult(cso, ejs, use_radius) ==
    LET cand == CandidateBGs(ejs)
    IN  IF use_radius # None
        THEN [raised |-> "none",
              value |-> BufferedResult(cso, cand, use_radius),
              log |-> << LogMsg("Assigning CSO data to Census Blocks", use_radius),
                         LogMsg("Total number of CSOs", Len(cso)),
                         LogMsg("Total number of CSOs-BlockGroup pairs",
                                Len(SjoinIntersects(cso, cand, use_radius))) >>]
        ELSE LET merge == SjoinNearest(cso, cand)
             IN  [raised |-> IF Len(merge) = Len(cso) THEN "none" ELSE "ValueError",
                  \* data_cso['GEOID'] = utm_merge_df['GEOID'].values
                  value |-> IF Len(merge) = Len(cso) THEN merge ELSE << >>,
                  log |-> << LogMsg("Assigning CSO data to Census Blocks", None) >>]

\* no copy: the local name stays bound to the caller's object
SameObject(name) == name

\* df.copy() binds the local name to a new object
DataFrameCopy(name) == "copy"

\* the objects after _assign_cso_data_to_census_blocks_with_geopandas has
\* run: the caller's data_cso and geo_blockgroups_df, the copy of line 164
\* and the filtered utm_bg_df of line 170, each with the columns the
\* function assigned to it (line 201 in exact mode, 190 in buffered mode)
AssignFrames(cso, ejs, bgs, use_radius) ==
    LET local  == DataFrameCopy("data_cso")
        r      == AssignResult(cso, ejs, use_radius)
        cand   == CandidateBGs(ejs)
        before == [data_cso |-> cso, copy |-> cso, geo_blockgroups_df |-> bgs,
                   utm_bg_df |-> [b \in cand |-> bgs[b]]]
    IN  IF use_radius # None
        THEN [before EXCEPT !["utm_bg_df"] =
                [b \in cand |->
                    [GEOID |-> bgs[b].GEOID, lo |-> bgs[b].lo, hi |-> bgs[b].hi,
                     DischargeVolume |->
                        SmoothedDischarge(r.value)[b].DischargeVolume,
                     DischargeCount |->
                        SmoothedDischarge(r.value)[b].DischargeCount]]]
        ELSE IF r.raised = "none"
             THEN [before EXCEPT ![local] = r.value]
             ELSE before

\* ------------------------------------------------------------ the pipeline
\* the demographic table of the pipeline specification: block group b's row
IndTripleSeq == << <<2, 4, NaN>>, <<9, NaN, 2>>, <<4, 2, 9>>, <<NaN, 9, 4>> >>
PopSeq == << 2, 0, 1, NaN >>

EjsRow(b, pop, ind) ==
    [ID |-> b, ACSTOTPOP |-> pop,
     MINORPCT |-> ind[1], LOWINCPCT |-> ind[2], LINGISOPCT |-> ind[3]]

EjsTable(S) ==
    LET ids == SortedSeq(S)
    IN  [i \in DOMAIN ids |->
            EjsRow(ids[i], PopSeq[((ids[i] - 1) % 4) + 1],
                   IndTripleSeq[((ids[i] - 1) % 4) + 1])]

Event(i, p, v, c) ==
    [cso_id |-> i, latlon |-> p, DischargeVolume |-> v, DischargeCount |-> c]

\* an event table of k rows: row i is outfall i
EventTable(k, f) == [i \in 1..k |-> Event(i, f[i][1], f[i][2], f[i][3])]

Empty == << >>

\* no cached function has been called and the joblib store is empty
CacheIdle ==
    /\ memory = Empty /\ cache_call = Empty /\ cache_ret = Empty /\ written = {}

\* no function has been called on its own
StanIdle == stan_args = Empty /\ stan_dat = Empty

ChartIdle == chart_x = Empty /\ x_bins = Empty /\ x_bin_id = Empty

\* run_analysis is not under way: its files and switches are not looked at
RunIdle ==
    /\ fact_file = Empty /\ disk = Empty
    /\ make_maps = FALSE /\ make_charts = FALSE /\ make_regression = FALSE

CallIdle ==
    /\ sql_rows = Empty
    /\ StanIdle
    /\ ChartIdle
    /\ RunIdle

\* transform_data_cso has not been called
EeaIdle ==
    /\ data_cso_filtered_reports = Empty /\ df_lat_long_cso = Empty
    /\ df_per_outfall = Empty /\ stdout = Empty

\* weight_mean has not been called
WmIdle ==
    /\ wm_args = Empty /\ wm_x = Empty /\ wm_weights = Empty
    /\ wm_avgs = Empty /\ wm_i = 0 /\ wm_sel = Empty /\ wm_ret = Empty

\* the state after get_geo_files and load_data
Init ==
    /\ pc = "loaded"
    /\ err = "none"
    /\ log = << >>
    /\ cbg_smooth_radius \in {None, Radius}
    /\ \E k \in 0..NumEvents :
         \E f \in [1..k -> Positions \X Vols \X Counts] :
            cso_loaded = EventTable(k, f)
    /\ \E S \in SUBSET BlockGroups : ejs_loaded = EjsTable(S)
    /\ geo_towns_df = << Polygon("T1", 0, 2) >>
    /\ geo_watersheds_df = << Polygon("W1", 0, 4) >>
    /\ geo_blockgroups_df = BlockGroupTable
    /\ data_cso = cso_loaded
    /\ data_ejs = ejs_loaded
    /\ data_ins_g_bg = Empty /\ data_ins_g_muni_j = Empty
    /\ data_ins_g_ws_j = Empty /\ data_egs_merge = Empty
    /\ df_watershed_level = Empty /\ df_town_level = Empty
    /\ WmIdle
    /\ EeaIdle
    /\ CacheIdle
    /\ CallIdle

\* run_analysis: self.data_cso = self.assign_cso_data_to_census_blocks(...)
AssignCSO ==
    /\ pc = "loaded"
    /\ LET r == AssignResult(data_cso, data_ejs, cbg_smooth_radius)
       IN  /\ log' = log \o r.log
           /\ IF r.raised = "none"
              THEN /\ data_cso' = r.value
                   /\ pc' = "assigned"
                   /\ err' = err
              ELSE /\ data_cso' = data_cso
                   /\ pc' = "raised"
                   /\ err' = r.raised
    /\ LET after == AssignFrames(data_cso, data_ejs, geo_blockgroups_df,
                                 cbg_smooth_radius)
       IN  /\ cso_loaded' = after.data_cso
           /\ geo_blockgroups_df' = after.geo_blockgroups_df
    /\ UNCHANGED << cbg_smooth_radius, ejs_loaded, geo_towns_df,
                    geo_watersheds_df,
                    data_ejs, data_ins_g_bg,
                    data_ins_g_muni_j, data_ins_g_ws_j, data_egs_merge,
                    df_watershed_level, df_town_level >>
    /\ UNCHANGED wm_vars
    /\ UNCHANGED eea_vars
    /\ UNCHANGED cache_vars
    /\ UNCHANGED call_vars

\* --------------------------------------------- hierarchical label propagation
\* geo_df.sjoin(data_ejs_centroids, predicate='contains') restricted to one
\* block group: the polygons of geo_df that contain its centroid, in table order
ResultSet(geo_df, cbg_id) ==
    IF cbg_id \notin BlockGroups THEN << >>
    ELSE SelectSeq(geo_df, LAMBDA poly : IntervalContains(poly, Centroid(cbg_id)))

\* the label of the last polygon that contains the centroid
GeoLabelLast(geo_df, cbg_id) ==
    LET result_set == ResultSet(geo_df, cbg_id)
    IN  IF Len(result_set) = 0 THEN UNKNOWN ELSE result_set[Len(result_set)].name

\* the label written for one block group: '[UNKNOWN]' stays when no polygon
\* contains the centroid, else result_set.iloc[0][geo_key]
GeoLabel(geo_df, cbg_id) ==
    LET result_set == ResultSet(geo_df, cbg_id)
    IN  IF Len(result_set) = 0 THEN UNKNOWN ELSE result_set[1].name

\* the messages of one pass of the geo_type loop
GeoLog(geo_type, geo_df, ejs) ==
    Flatten([i \in DOMAIN ejs |->
        LET n == Len(ResultSet(geo_df, ejs[i].ID))
        IN  IF n = 0 THEN << LogMsg("No " \o geo_type \o " found", ejs[i].ID) >>
            ELSE IF n > 1
                 THEN << LogCount(geo_type \o "s were found; will pick the first",
                                  ejs[i].ID, n) >>
                 ELSE << >>])

LabelledRow(row, town, watershed) ==
    [ID |-> row.ID, ACSTOTPOP |-> row.ACSTOTPOP, MINORPCT |-> row.MINORPCT,
     LOWINCPCT |-> row.LOWINCPCT, LINGISOPCT |-> row.LINGISOPCT,
     Town |-> town, Watershed |-> watershed]

\* an inner join with the block-group geometry: the demographic rows without
\* a block-group polygon are dropped
AssignEjInner(ejs, towns, watersheds) ==
    LET known == SelectSeq(ejs, LAMBDA row : row.ID \in BlockGroups)
    IN  [i \in DOMAIN known |->
            LabelledRow(known[i], GeoLabel(towns, known[i].ID),
                        GeoLabel(watersheds, known[i].ID))]

\* assign_ej_data_to_geo_bins_with_geopandas: data_ejs with Town and Watershed
AssignEjResult(ejs, towns, watersheds) ==
    [i \in DOMAIN ejs |->
        LabelledRow(ejs[i], GeoLabel(towns, ejs[i].ID),
                    GeoLabel(watersheds, ejs[i].ID))]

\* the objects after assign_ej_data_to_geo_bins_with_geopandas has run: the
\* caller's data_ejs and the copy of line 223 that receives the labels
EjFrames(ejs, towns, watersheds) ==
    LET local  == DataFrameCopy("data_ejs")
        before == [data_ejs |-> ejs, copy |-> ejs]
    IN  [before EXCEPT ![local] = AssignEjResult(ejs, towns, watersheds)]

\* run_analysis: self.data_ejs = assign_ej_data_to_geo_bins_with_geopandas(...)
AssignEJ ==
    /\ pc = "assigned"
    /\ data_ejs' = AssignEjResult(data_ejs, geo_towns_df, geo_watersheds_df)
    /\ log' = log \o << LogMsg("Adding Town and Watershed labels to EJ data", None) >>
                  \o GeoLog("Town", geo_towns_df, data_ejs)
                  \o GeoLog("Watershed", geo_watersheds_df, data_ejs)
    /\ pc' = "labelled"
    /\ ejs_loaded' = EjFrames(data_ejs, geo_towns_df, geo_watersheds_df).data_ejs
    /\ UNCHANGED << err, cbg_smooth_radius, cso_loaded, geo_towns_df,
                    geo_watersheds_df, geo_blockgroups_df,
                    data_cso, data_ins_g_bg,
                    data_ins_g_muni_j, data_ins_g_ws_j, data_egs_merge,
                    df_watershed_level, df_town_level >>
    /\ UNCHANGED wm_vars
    /\ UNCHANGED eea_vars
    /\ UNCHANGED cache_vars
    /\ UNCHANGED call_vars

\* ------------------------------------------------------- aggregation engine
\* pop_weighted_average(x, cols) for one column: np.sum over the pandas
\* Series w * x[col] and over w skips NaN entries, each sum on its own
WeightedColumn(rows, col) ==
    [i \in DOMAIN rows |->
        IF IsNaN(rows[i].ACSTOTPOP) \/ IsNaN(rows[i][col]) THEN NaN
        ELSE rows[i].ACSTOTPOP * rows[i][col]]

PopColumn(rows) == [i \in DOMAIN rows |-> rows[i].ACSTOTPOP]

pop_weighted_average(rows, cols) ==
    [col \in Range(cols) |->
        NpDivide(SumSkipNa(WeightedColumn(rows, col)), SumSkipNa(PopColumn(rows)))]

\* the keys of DataFrame.groupby(key): the non-null values of the column
GroupKeys(rows, key, null) == { rows[i][key] : i \in DOMAIN rows } \ {null}

\* a group-by that forgets to select the group's rows: every key gets the
\* sums of the whole table
GroupBySumAll(rows, key, null) ==
    [k \in GroupKeys(rows, key, null) |->
        [DischargeVolume |->
            SumSkipNa(Column(rows, "DischargeVolume")),
         DischargeCount |->
            SumSkipNa(Column(rows, "DischargeCount"))]]

\* DataFrame.groupby(key)[[vol, count]].sum()
GroupBySum(rows, key, null) ==
    [k \in GroupKeys(rows, key, null) |->
        LET grp == SelectSeq(rows, LAMBDA row : row[key] = k)
        IN  [DischargeVolume |->
                SumSkipNa(Column(grp, "DischargeVolume")),
             DischargeCount |->
                SumSkipNa(Column(grp, "DischargeCount"))]]

MergedRow(cso_id, vol, cnt, town, watershed) ==
    [cso_id |-> cso_id, DischargeVolume |-> vol, DischargeCount |-> cnt,
     Town |-> town, Watershed |-> watershed]

\* a cross join: every event row paired with every demographic row
MergeCross(cso, ejs) ==
    Flatten([i \in DOMAIN cso |->
        [j \in DOMAIN ejs |->
            MergedRow(cso[i].cso_id, cso[i].DischargeVolume,
                      cso[i].DischargeCount, ejs[j].Town, ejs[j].Watershed)]])

\* a merge that ignores the key: every event row takes the labels of the
\* first demographic row
MergeFirstLabel(cso, ejs) ==
    [i \in DOMAIN cso |->
        MergedRow(cso[i].cso_id, cso[i].DischargeVolume, cso[i].DischargeCount,
                  IF ejs = << >> THEN NullLabel ELSE ejs[1].Town,
                  IF ejs = << >> THEN NullLabel ELSE ejs[1].Watershed)]
    \o [j \in DOMAIN ejs |->
          MergedRow(None, NaN, NaN, ejs[j].Town, ejs[j].Watershed)]

\* pd.merge(data_cso, data_ejs, left_on='GEOID', right_on='ID', how='outer'):
\* every matching (event row, demographic row) pair, every event row without
\* a demographic row, and every demographic row without an event row
MergeOuter(cso, ejs) ==
    Flatten([i \in DOMAIN cso |->
        LET hit == SelectSeq(ejs, LAMBDA row : row.ID = cso[i].GEOID)
        IN  IF hit = << >>
            THEN << MergedRow(cso[i].cso_id, cso[i].DischargeVolume,
                              cso[i].DischargeCount, NullLabel, NullLabel) >>
            ELSE [j \in DOMAIN hit |->
                    MergedRow(cso[i].cso_id, cso[i].DischargeVolume,
                              cso[i].DischargeCount, hit[j].Town,
                              hit[j].Watershed)]])
    \o Flatten([j \in DOMAIN ejs |->
        IF \E i \in DOMAIN cso : cso[i].GEOID = ejs[j].ID THEN << >>
        ELSE << MergedRow(None, NaN, NaN, ejs[j].Town, ejs[j].Watershed) >>])

\* the outer merge of the per-block-group sums with data_ejs: every
\* demographic row with the sums of its block group, NaN when it has none
EgsMerge(g_bg, ejs) ==
    [j \in DOMAIN ejs |->
        [ID |-> ejs[j].ID, ACSTOTPOP |-> ejs[j].ACSTOTPOP,
         MINORPCT |-> ejs[j].MINORPCT, LOWINCPCT |-> ejs[j].LOWINCPCT,
         LINGISOPCT |-> ejs[j].LINGISOPCT,
         Town |-> ejs[j].Town, Watershed |-> ejs[j].Watershed,
         DischargeVolume |-> IF ejs[j].ID \in DOMAIN g_bg
                             THEN g_bg[ejs[j].ID].DischargeVolume ELSE NaN,
         DischargeCount |-> IF ejs[j].ID \in DOMAIN g_bg
                            THEN g_bg[ejs[j].ID].DischargeCount ELSE NaN]]

\* data_egs_merge.groupby(key).apply(pop_weighted_average over the EJ columns)
LevelTable(egs, key) ==
    [k \in GroupKeys(egs, key, NullLabel) |->
        pop_weighted_average(SelectSeq(egs, LAMBDA row : row[key] = k), EJ_COLS)]

\* run_analysis: the six tables of self.apply_pop_weighted_avg(...)
ApplyPopWeightedAvg ==
    /\ pc = "labelled"
    /\ log' = log \o << LogMsg("Calculating population weighted averages", None) >>
    /\ data_ins_g_bg' = GroupBySum(data_cso, "GEOID", None)
    /\ data_ins_g_muni_j' = GroupBySum(MergeOuter(data_cso, data_ejs), "Town", NullLabel)
    /\ data_ins_g_ws_j' = GroupBySum(MergeOuter(data_cso, data_ejs), "Watershed", NullLabel)
    /\ data_egs_merge' = EgsMerge(GroupBySum(data_cso, "GEOID", None), data_ejs)
    /\ df_watershed_level' =
          LevelTable(EgsMerge(GroupBySum(data_cso, "GEOID", None), data_ejs), "Watershed")
    /\ df_town_level' =
          LevelTable(EgsMerge(GroupBySum(data_cso, "GEOID", None), data_ejs), "Town")
    /\ pc' = "aggregated"
    /\ UNCHANGED << err, cbg_smooth_radius, cso_loaded, ejs_loaded, geo_towns_df,
                    geo_watersheds_df, geo_blockgroups_df,
                    data_cso, data_ejs >>
    /\ UNCHANGED wm_vars
    /\ UNCHANGED eea_vars
    /\ UNCHANGED cache_vars
    /\ UNCHANGED call_vars

Next == AssignCSO \/ AssignEJ \/ ApplyPopWeightedAvg

Spec == Init /\ [][Next]_vars

\* ------------------------------------ pop_weighted_average on its own inputs
\* the merged demographic tables of 1..n rows whose first `cut` rows lie in
\* Town "T1" and the others in Town "T2"
EgsRow(i, pop, ind, town) ==
    [ID |-> i, ACSTOTPOP |-> pop,
     MINORPCT |-> ind[1], LOWINCPCT |-> ind[2], LINGISOPCT |-> ind[3],
     Town |-> town, Watershed |-> UNKNOWN,
     DischargeVolume |-> NaN, DischargeCount |-> NaN]

EgsTable(k, f, cut) ==
    [i \in 1..k |-> EgsRow(i, f[i][1], f[i][2], IF i <= cut THEN "T1" ELSE "T2")]

InitPWA ==
    /\ pc = "pwa_call"
    /\ err = "none"
    /\ log = << >>
    /\ cbg_smooth_radius = None
    /\ cso_loaded = Empty /\ ejs_loaded = Empty
    /\ geo_towns_df = Empty /\ geo_watersheds_df = Empty
    /\ geo_blockgroups_df = Empty
    /\ data_cso = Empty /\ data_ejs = Empty
    /\ data_ins_g_bg = Empty /\ data_ins_g_muni_j = Empty
    /\ data_ins_g_ws_j = Empty
    /\ \E k \in 1..MaxRows :
         \E f \in [1..k -> PopValues \X IndTriples], cut \in 0..k :
            data_egs_merge = EgsTable(k, f, cut)
    /\ df_watershed_level = Empty /\ df_town_level = Empty
    /\ WmIdle
    /\ EeaIdle
    /\ CacheIdle
    /\ CallIdle

\* df_town_level = data_egs_merge.groupby('Town').apply(pop_weighted_average)
TownLevel ==
    /\ pc = "pwa_call"
    /\ df_town_level' = LevelTable(data_egs_merge, "Town")
    /\ pc' = "pwa_done"
    /\ UNCHANGED << err, log, cbg_smooth_radius, cso_loaded, ejs_loaded,
                    geo_towns_df, geo_watersheds_df, geo_blockgroups_df,
                    data_cso, data_ejs,
                    data_ins_g_bg, data_ins_g_muni_j, data_ins_g_ws_j,
                    data_egs_merge, df_watershed_level >>
    /\ UNCHANGED wm_vars
    /\ UNCHANGED eea_vars
    /\ UNCHANGED cache_vars
    /\ UNCHANGED call_vars

SpecPWA == InitPWA /\ [][TownLevel]_vars

\* --------------------------------- _apply_pop_weighted_avg on its own inputs
TownLabels      == {"T1", "T2", UNKNOWN}
WatershedLabels == {"W1", UNKNOWN}

\* an exact-mode event table: outfall i sits at the centroid of block group
\* g[i][1], the only candidate nearest to it (no candidate at all: null)
AssignedTable(k, g) ==
    [i \in 1..k |->
        ExactRow(Event(i, IF g[i][1] = None THEN 1 ELSE Centroid(g[i][1]),
                       g[i][2], g[i][3]),
                 g[i][1])]

LoadedTable(k, g) ==
    [i \in 1..k |->
        Event(i, IF g[i][1] = None THEN 1 ELSE Centroid(g[i][1]), g[i][2], g[i][3])]

\* the labelled demographic table of the block groups S
LabelledTable(S, lab) ==
    LET ejs == EjsTable(S)
    IN  [j \in DOMAIN ejs |-> LabelledRow(ejs[j], lab[ejs[j].ID][1], lab[ejs[j].ID][2])]

\* the state in which run_analysis calls apply_pop_weighted_avg, exact mode
InitAgg ==
    /\ pc = "labelled"
    /\ err = "none"
    /\ log = << >>
    /\ cbg_smooth_radius = None
    /\ geo_towns_df = Empty /\ geo_watersheds_df = Empty
    /\ geo_blockgroups_df = Empty
    /\ \E S \in SUBSET BlockGroups :
         /\ ejs_loaded = EjsTable(S)
         /\ \E lab \in [S -> TownLabels \X WatershedLabels] :
               data_ejs = LabelledTable(S, lab)
         /\ \E k \in 0..NumEvents :
               \E g \in [1..k -> (IF S = {} THEN {None} ELSE S) \X Vols \X Counts] :
                  /\ cso_loaded = LoadedTable(k, g)
                  /\ data_cso = AssignedTable(k, g)
    /\ data_ins_g_bg = Empty /\ data_ins_g_muni_j = Empty
    /\ data_ins_g_ws_j = Empty /\ data_egs_merge = Empty
    /\ df_watershed_level = Empty /\ df_town_level = Empty
    /\ WmIdle
    /\ EeaIdle
    /\ CacheIdle
    /\ CallIdle

SpecAgg == InitAgg /\ [][ApplyPopWeightedAvg]_vars

\* ------------------------- assign_ej_data_to_geo_bins_with_geopandas on its own
TownNames == << "T1", "T2", "T3", "T4" >>

\* the intervals a municipality or watershed polygon may cover
Intervals == { iv \in Positions \X Positions : iv[1] < iv[2] }

\* k municipality polygons, the i-th named TownNames[i]
TownTable(k, f) == [i \in 1..k |-> Polygon(TownNames[i], f[i][1], f[i][2])]

\* at most one watershed polygon, reaching one end of the strip
WatershedTables ==
    { Empty } \cup
    { << Polygon("W1", iv[1], iv[2]) >> :
         iv \in { w \in Intervals : w[1] = 0 \/ w[2] = 2 * NumBG } }

\* the state in which run_analysis calls
\* assign_ej_data_to_geo_bins_with_geopandas
InitLabel ==
    /\ pc = "assigned"
    /\ err = "none"
    /\ log = << >>
    /\ cbg_smooth_radius = None
    /\ cso_loaded = Empty /\ data_cso = Empty
    /\ \E S \in SUBSET BlockGroups :
         /\ ejs_loaded = EjsTable(S)
         /\ data_ejs = EjsTable(S)
    /\ \E k \in 0..MaxPolys : \E f \in [1..k -> Intervals] :
         geo_towns_df = TownTable(k, f)
    /\ geo_watersheds_df \in WatershedTables
    /\ geo_blockgroups_df = BlockGroupTable
    /\ data_ins_g_bg = Empty /\ data_ins_g_muni_j = Empty
    /\ data_ins_g_ws_j = Empty /\ data_egs_merge = Empty
    /\ df_watershed_level = Empty /\ df_town_level = Empty
    /\ WmIdle
    /\ EeaIdle
    /\ CacheIdle
    /\ CallIdle

SpecLabel == InitLabel /\ [][AssignEJ]_vars

\* the same call with demographic rows that have no block-group polygon: the
\* identifier NumBG + 1 is in no row of geo_blockgroups_df
InitLabelRows ==
    /\ pc = "assigned"
    /\ err = "none"
    /\ log = << >>
    /\ cbg_smooth_radius = None
    /\ cso_loaded = Empty /\ data_cso = Empty
    /\ \E S \in SUBSET (1..(NumBG + 1)) :
         /\ ejs_loaded = EjsTable(S)
         /\ data_ejs = EjsTable(S)
    /\ \E k \in 0..1 : \E f \in [1..k -> Intervals] :
         geo_towns_df = TownTable(k, f)
    /\ geo_watersheds_df \in WatershedTables
    /\ geo_blockgroups_df = BlockGroupTable
    /\ data_ins_g_bg = Empty /\ data_ins_g_muni_j = Empty
    /\ data_ins_g_ws_j = Empty /\ data_egs_merge = Empty
    /\ df_watershed_level = Empty /\ df_town_level = Empty
    /\ WmIdle
    /\ EeaIdle
    /\ CacheIdle
    /\ CallIdle

SpecLabelRows == InitLabelRows /\ [][AssignEJ]_vars

\* ------------------------------------------------------------------ weight_mean
\* Floats in weight_mean are kept at a reduced width: a float is a natural
\* m * 2^e whose mantissa m has Precision bits (naturals below 2^Precision
\* are all floats), and every arithmetic result is rounded to the nearest
\* float, ties to the even mantissa, as IEEE 754 does at 53 bits.
MantissaEnd == 2 ^ Precision

\* the spacing of the floats around the non-negative quotient n / d
RECURSIVE Ulp(_, _, _)
Ulp(n, d, s) == IF n < MantissaEnd * s * d THEN s ELSE Ulp(n, d, 2 * s)

\* n / d rounded to the nearest float
FRound(n, d) ==
    LET s == Ulp(n, d, 1)
        q == n \div (d * s)
        r == n - q * d * s
    IN  IF 2 * r < d * s THEN q * s
        ELSE IF 2 * r > d * s THEN (q + 1) * s
        ELSE IF q % 2 = 0 THEN q * s ELSE (q + 1) * s

\* ndarray.sum() of a short float array: a left-to-right sum, rounded at
\* every addition
RECURSIVE FSumFrom(_, _)
FSumFrom(acc, s) ==
    IF s = << >> THEN acc ELSE FSumFrom(FRound(acc + Head(s), 1), Tail(s))

FSum(s) == FSumFrom(0, s)

\* np.multiply(a, wgt): the elementwise product, each rounded
FMultiply(a, wgt) == [k \in DOMAIN a |-> FRound(a[k] * wgt[k], 1)]

\* an averaging that divides the weighted sum by the number of rows
FAverageByCount(a, wgt) ==
    IF FSum(wgt) = 0 THEN [raised |-> "ZeroDivisionError", value |-> NaN]
    ELSE [raised |-> "none", value |-> FRound(FSum(FMultiply(a, wgt)), Len(a))]

\* np.average(a, weights=wgt) on float arrays of one length: raises
\* ZeroDivisionError when the weights sum to zero, else
\* np.multiply(a, wgt).sum() / wgt.sum()
FAverage(a, wgt) ==
    IF FSum(wgt) = 0 THEN [raised |-> "ZeroDivisionError", value |-> NaN]
    ELSE [raised |-> "none", value |-> FRound(FSum(FMultiply(a, wgt)), FSum(wgt))]

\* np.mean(avgs)
FMean(a) == FRound(FSum(a), Len(a))

\* np.std(avgs): the root of the mean squared deviation from np.mean(avgs);
\* the quotient under the root is kept, <<sum of squared deviations, N>>,
\* so the standard deviation is 0 exactly when its first component is 0
FStd(a) ==
    << SeqSum([k \in DOMAIN a |-> (a[k] - FMean(a)) * (a[k] - FMean(a))]), Len(a) >>

\* x[nonan_sel]: the rows kept by the boolean mask
Masked(s, mask) ==
    LET keep == SortedSeq({ k \in DOMAIN s : mask[k] })
    IN  [j \in DOMAIN keep |-> s[keep[j]]]

\* (np.isnan(x) == 0) & (np.isnan(weights) == 0)
NonanSel(xs, ws) == [k \in DOMAIN xs |-> ~IsNaN(xs[k]) /\ ~IsNaN(ws[k])]

\* x[sel]: fancy indexing by an index vector
Take(s, idx) == [k \in DOMAIN idx |-> s[idx[k]]]

\* a selection that pairs every value with the weight of the first pick
TakeFirst(s, idx) == [k \in DOMAIN idx |-> s[idx[1]]]

\* weights[sel]
TakeWeights(s, idx) == Take(s, idx)

WmValues  == {NaN, 5, 7}        \* discharge volumes handed to weight_mean
WmWeights == {NaN, 0, 2, 3}     \* populations handed to weight_mean

\* the arguments of a call: k rows, preceded when lead holds by a row whose
\* value is NaN
WmArgs(lead, k, f, n) ==
    [x |-> (IF lead THEN << NaN >> ELSE << >>) \o [j \in 1..k |-> f[j][1]],
     weights |-> (IF lead THEN << 2 >> ELSE << >>) \o [j \in 1..k |-> f[j][2]],
     N |-> n]

\* the pipeline tables play no part in a call of weight_mean
PipelineIdle ==
    /\ log = << >>
    /\ cbg_smooth_radius = None
    /\ cso_loaded = Empty /\ ejs_loaded = Empty
    /\ geo_towns_df = Empty /\ geo_watersheds_df = Empty
    /\ geo_blockgroups_df = Empty
    /\ data_cso = Empty /\ data_ejs = Empty
    /\ data_ins_g_bg = Empty /\ data_ins_g_muni_j = Empty
    /\ data_ins_g_ws_j = Empty /\ data_egs_merge = Empty
    /\ df_watershed_level = Empty /\ df_town_level = Empty

pipeline_vars ==
    << log, cbg_smooth_radius, cso_loaded, ejs_loaded, geo_towns_df,
       geo_watersheds_df, geo_blockgroups_df,
       data_cso, data_ejs, data_ins_g_bg, data_ins_g_muni_j,
       data_ins_g_ws_j, data_egs_merge, df_watershed_level, df_town_level >>

\* weight_mean(x, weights, N) is called
InitWM ==
    /\ pc = "wm_call"
    /\ err = "none"
    /\ PipelineIdle
    /\ \E k \in 0..MaxSample : \E f \in [1..k -> WmValues \X WmWeights] :
          \E n \in 1..MaxN, lead \in BOOLEAN : wm_args = WmArgs(lead, k, f, n)
    /\ wm_x = Empty /\ wm_weights = Empty
    /\ wm_avgs = Empty /\ wm_i = 0 /\ wm_sel = Empty /\ wm_ret = Empty
    /\ EeaIdle
    /\ CacheIdle
    /\ CallIdle

\* avgs = np.zeros(N); the NaN rows are masked out of x and weights
WmFilter ==
    /\ pc = "wm_call"
    /\ wm_avgs' = [k \in 1..wm_args.N |-> 0]
    /\ wm_x' = Masked(wm_args.x, NonanSel(wm_args.x, wm_args.weights))
    /\ wm_weights' = Masked(wm_args.weights, NonanSel(wm_args.x, wm_args.weights))
    /\ wm_i' = 0
    /\ pc' = "wm_loop"
    /\ UNCHANGED << err, wm_args, wm_sel, wm_ret >>
    /\ UNCHANGED pipeline_vars
    /\ UNCHANGED eea_vars
    /\ UNCHANGED cache_vars
    /\ UNCHANGED call_vars

\* one pass of the loop body: sel = np.random.randint(len(x), size=len(x)),
\* avgs[i] = np.average(x[sel], weights=weights[sel]).  With len(x) = 0 the
\* draw raises ValueError or, where numpy returns the empty draw unchecked,
\* np.average raises ZeroDivisionError on the empty weights.
WmResample ==
    /\ pc = "wm_loop"
    /\ wm_i < wm_args.N
    /\ IF Len(wm_x) = 0
       THEN /\ err' \in {"ValueError", "ZeroDivisionError"}
            /\ pc' = "raised"
            /\ UNCHANGED << wm_avgs, wm_i, wm_sel >>
       ELSE \E s \in [1..Len(wm_x) -> 1..Len(wm_x)] :
               LET r == FAverage(Take(wm_x, s), TakeWeights(wm_weights, s))
               IN  /\ wm_sel' = s
                   /\ IF r.raised = "none"
                      THEN /\ wm_avgs' = [wm_avgs EXCEPT ![wm_i + 1] = r.value]
                           /\ wm_i' = wm_i + 1
                           /\ UNCHANGED << pc, err >>
                      ELSE /\ err' = r.raised
                           /\ pc' = "raised"
                           /\ UNCHANGED << wm_avgs, wm_i >>
    /\ UNCHANGED << wm_args, wm_x, wm_weights, wm_ret >>
    /\ UNCHANGED pipeline_vars
    /\ UNCHANGED eea_vars
    /\ UNCHANGED cache_vars
    /\ UNCHANGED call_vars

\* return np.mean(avgs), np.std(avgs)
WmReturn ==
    /\ pc = "wm_loop"
    /\ wm_i = wm_args.N
    /\ wm_ret' = [mean |-> FMean(wm_avgs), std |-> FStd(wm_avgs)]
    /\ pc' = "wm_done"
    /\ UNCHANGED << err, wm_args, wm_x, wm_weights, wm_avgs, wm_i, wm_sel >>
    /\ UNCHANGED pipeline_vars
    /\ UNCHANGED eea_vars
    /\ UNCHANGED cache_vars
    /\ UNCHANGED call_vars

NextWM == WmFilter \/ WmResample \/ WmReturn

SpecWM == InitWM /\ [][NextWM]_vars

\* --------------------------------------------- CSOAnalysisEEADP.transform_data_cso
OutfallIDs   == {1, 2}          \* cso_id values of the reports
ReportCoords == {NaN, 1}        \* a report's own latitude / longitude
ListCoords   == {NaN, 2}        \* Lat / Long in the state outfall list
ReportVols   == {1, 2}          \* volumnOfEvent, in gallons

Report(k, id, lat, lon, vol) ==
    [incidentId |-> k, cso_id |-> id, latitude |-> lat, longitude |-> lon,
     DischargeVolume |-> vol]

ReportTable(n, f) ==
    [k \in 1..n |-> Report(k, f[k][1], f[k][2], f[k][3], f[k][4])]

\* the state outfall lists: some Outfall IDs, each with a Lat and a Long
OutfallLists ==
    UNION { [S -> [Lat : ListCoords, Long : ListCoords]] : S \in SUBSET OutfallIDs }

\* df_lat_long_cso.reindex(ids)[['Lat', 'Long']] for one id: NaN for an id
\* the list does not hold
Reindex(list, id) ==
    IF id \in DOMAIN list THEN list[id] ELSE [Lat |-> NaN, Long |-> NaN]

\* data_cso['latitude'].isnull()
SelMissing(reports) == [k \in DOMAIN reports |-> IsNaN(reports[k].latitude)]

\* data_cso.loc[sel_missing, ['latitude', 'longitude']] = missing_lat_long_coords.values
FillMissing(reports, list) ==
    [k \in DOMAIN reports |->
        IF SelMissing(reports)[k]
        THEN [reports[k] EXCEPT !.latitude = Reindex(list, reports[k].cso_id).Lat,
                                !.longitude = Reindex(list, reports[k].cso_id).Long]
        ELSE reports[k]]

\* sum(mask): the number of rows the mask selects
CountTrue(mask) == Cardinality({ k \in DOMAIN mask : mask[k] })

\* the keys of groupby(['reporterClass', 'cso_id', 'latitude', 'longitude']):
\* rows with a null in a key column belong to no group
OutfallKeys(reports) ==
    { << reports[k].cso_id, reports[k].latitude, reports[k].longitude >> :
        k \in { j \in DOMAIN reports :
                  ~IsNaN(reports[j].latitude) /\ ~IsNaN(reports[j].longitude) } }

\* df_agg, per outfall: the summed volume, converted to millions of gallons,
\* and the number of reports
PerOutfall(reports) ==
    [key \in OutfallKeys(reports) |->
        LET grp == SelectSeq(reports,
                     LAMBDA r : << r.cso_id, r.latitude, r.longitude >> = key)
        IN  [DischargeVolume |-> NpDivide(SeqSum(Column(grp, "DischargeVolume")), 1000000),
             DischargeCount |-> Len(grp)]]

\* load_data_cso calls transform_data_cso(df_pick)
InitEEA ==
    /\ pc = "transform_call"
    /\ err = "none"
    /\ PipelineIdle
    /\ WmIdle
    /\ \E n \in 0..MaxReports :
          \E f \in [1..n -> OutfallIDs \X ReportCoords \X ReportCoords \X ReportVols] :
             data_cso_filtered_reports = ReportTable(n, f)
    /\ df_lat_long_cso \in OutfallLists
    /\ df_per_outfall = Empty
    /\ stdout = Empty
    /\ CacheIdle
    /\ CallIdle

\* transform_data_cso: fill the missing coordinates from the state list, print
\* the two counts, group per outfall; df_agg.loc[pick_report_type] raises
\* KeyError when no group is left
TransformDataCso ==
    /\ pc = "transform_call"
    /\ LET filled == FillMissing(data_cso_filtered_reports, df_lat_long_cso)
       IN  /\ stdout' = << LogMsg("Missing outfall lat/longs",
                                  CountTrue(SelMissing(data_cso_filtered_reports))),
                           LogMsg("Loading missing lat/long data", None),
                           LogMsg("Missing outfall lat/longs after replacement",
                                  CountTrue(SelMissing(filled))) >>
           /\ IF OutfallKeys(filled) = {}
              THEN /\ err' = "KeyError"
                   /\ pc' = "raised"
                   /\ df_per_outfall' = df_per_outfall
              ELSE /\ df_per_outfall' = PerOutfall(filled)
                   /\ pc' = "transformed"
                   /\ err' = err
    /\ UNCHANGED << data_cso_filtered_reports, df_lat_long_cso >>
    /\ UNCHANGED pipeline_vars
    /\ UNCHANGED wm_vars
    /\ UNCHANGED cache_vars
    /\ UNCHANGED call_vars

SpecEEA == InitEEA /\ [][TransformDataCso]_vars

\* ------------------------------------------------------ the joblib memory cache
\* 'waterBody' in data_ejs: the table has a waterBody column
HasWaterBody(ejs) == \E j \in DOMAIN ejs : "waterBody" \in DOMAIN ejs[j]

\* the matching (event row, demographic row) index pairs of the outer merge
MatchedPairs(cso, ejs) ==
    { p \in (DOMAIN cso) \X (DOMAIN ejs) : cso[p[1]].GEOID = ejs[p[2]].ID }

\* pd.merge(...).groupby(['Watershed', 'waterBody', 'cso_id'])['DischargeVolume'].sum():
\* the content of the per-waterbody CSV
WaterbodyCsv(cso, ejs) ==
    [key \in { << ejs[p[2]].Watershed, ejs[p[2]].waterBody, cso[p[1]].cso_id >> :
                 p \in MatchedPairs(cso, ejs) } |->
        SumSkipNa([i \in DOMAIN cso |->
            IF \E p \in MatchedPairs(cso, ejs) :
                  /\ p[1] = i
                  /\ << ejs[p[2]].Watershed, ejs[p[2]].waterBody, cso[i].cso_id >> = key
            THEN cso[i].DischargeVolume ELSE NaN])]

\* the six tables _apply_pop_weighted_avg returns
ApplyTables(cso, ejs) ==
    [data_ins_g_bg |-> GroupBySum(cso, "GEOID", None),
     data_ins_g_muni_j |-> GroupBySum(MergeOuter(cso, ejs), "Town", NullLabel),
     data_ins_g_ws_j |-> GroupBySum(MergeOuter(cso, ejs), "Watershed", NullLabel),
     data_egs_merge |-> EgsMerge(GroupBySum(cso, "GEOID", None), ejs),
     df_watershed_level |->
        LevelTable(EgsMerge(GroupBySum(cso, "GEOID", None), ejs), "Watershed"),
     df_town_level |->
        LevelTable(EgsMerge(GroupBySum(cso, "GEOID", None), ejs), "Town")]

\* the body of a cached function, executed: the value it returns and the
\* files it writes (path and content)
Execute(call) ==
    IF call.func = "assign_ej_data_to_geo_bins_with_geopandas"
    THEN [value |-> AssignEjResult(call.data_ejs, call.geo_towns_df,
                                   call.geo_watersheds_df),
          files |-> {}]
    ELSE [value |-> ApplyTables(call.data_cso, call.data_ejs),
          files |-> IF call.output_prefix # NullLabel /\ HasWaterBody(call.data_ejs)
                    THEN { << call.output_prefix \o "_discharge_per_waterbody.csv",
                              WaterbodyCsv(call.data_cso, call.data_ejs) >> }
                    ELSE {}]

\* joblib finds a stored result for the call's arguments
CacheHit(store, call) == call \in DOMAIN store

\* Memory.cache: a hit returns the stored result and skips the body; a miss
\* executes the body and stores what it returned
CachedCall(store, call) ==
    IF CacheHit(store, call)
    THEN [value |-> store[call], files |-> {}, store |-> store]
    ELSE [value |-> Execute(call).value,
          files |-> Execute(call).files,
          store |-> [c \in DOMAIN store \cup {call} |->
                        IF c = call THEN Execute(call).value ELSE store[c]]]

\* a demographic table with a waterBody column
WithWaterBody(ejs) ==
    [j \in DOMAIN ejs |->
        [ID |-> ejs[j].ID, ACSTOTPOP |-> ejs[j].ACSTOTPOP, MINORPCT |-> ejs[j].MINORPCT,
         LOWINCPCT |-> ejs[j].LOWINCPCT, LINGISOPCT |-> ejs[j].LINGISOPCT,
         Town |-> ejs[j].Town, Watershed |-> ejs[j].Watershed, waterBody |-> "WB1"]]

\* the calls of assign_ej_data_to_geo_bins_with_geopandas
EjCalls ==
    { [func |-> "assign_ej_data_to_geo_bins_with_geopandas",
       data_cso |-> Empty, data_ejs |-> EjsTable(S),
       geo_towns_df |-> << Polygon("T1", 0, h) >>,
       geo_watersheds_df |-> << Polygon("W1", 0, 2 * NumBG) >>,
       output_prefix |-> NullLabel] :
         S \in (SUBSET BlockGroups) \ {{}}, h \in {2, 4} }

\* the labelled demographic tables handed to _apply_pop_weighted_avg
LabelledTables ==
    { AssignEjResult(c.data_ejs, c.geo_towns_df, c.geo_watersheds_df) : c \in EjCalls }

\* the calls of _apply_pop_weighted_avg: one event in block group 1
PwaCalls ==
    { [func |-> "_apply_pop_weighted_avg",
       data_cso |-> << ExactRow(Event(1, 1, v, 1), 1) >>, data_ejs |-> ejs,
       geo_towns_df |-> Empty, geo_watersheds_df |-> Empty,
       output_prefix |-> prefix] :
         v \in {1, 2},
         ejs \in LabelledTables \cup { WithWaterBody(t) : t \in LabelledTables },
         prefix \in {"NECIR_CSO", "EEA_DP_CSO"} }

\* the interpreter starts with an empty store
InitCache ==
    /\ pc = "cache_idle"
    /\ err = "none"
    /\ PipelineIdle
    /\ WmIdle
    /\ EeaIdle
    /\ memory = Empty /\ cache_call = Empty /\ cache_ret = Empty /\ written = {}
    /\ CallIdle

CallThroughCache(call) ==
    /\ pc \in {"cache_idle", "cache_called"}
    /\ Cardinality(DOMAIN memory) < MaxCalls \/ call \in DOMAIN memory
    /\ cache_call' = call
    /\ cache_ret' = CachedCall(memory, call).value
    /\ written' = CachedCall(memory, call).files
    /\ memory' = CachedCall(memory, call).store
    /\ pc' = "cache_called"
    /\ UNCHANGED err
    /\ UNCHANGED pipeline_vars
    /\ UNCHANGED wm_vars
    /\ UNCHANGED eea_vars
    /\ UNCHANGED call_vars

\* run_analysis line 915
CallAssignEj == \E call \in EjCalls : CallThroughCache(call)

\* run_analysis lines 916-917
CallApplyPopWeightedAvg == \E call \in PwaCalls : CallThroughCache(call)

NextCache == CallAssignEj \/ CallApplyPopWeightedAvg

SpecCache == InitCache /\ [][NextCache]_vars

\* --------------------------------------------------------------- load_data_cso
\* the characters of the strings in the SQL table
Chars == {"1", "2", ".", "-", " ", "a"}
Digits == {"1", "2"}

\* a cell of the SQL table: a string, a number or NULL
StrCell(chars) == [type |-> "str", chars |-> chars, value |-> 0]
IntCell(n)     == [type |-> "int", chars |-> << >>, value |-> n]
NoneCell       == [type |-> "NoneType", chars |-> << >>, value |-> 0]

Strings == UNION { [1..n -> Chars] : n \in 0..MaxLen }

RawCells == { StrCell(s) : s \in Strings } \cup { IntCell(n) : n \in 0..2 } \cup {NoneCell}

\* str.strip(): leading and trailing whitespace removed
RECURSIVE LStrip(_)
LStrip(s) == IF s # << >> /\ Head(s) = " " THEN LStrip(Tail(s)) ELSE s

RECURSIVE RStrip(_)
RStrip(s) ==
    IF s # << >> /\ s[Len(s)] = " " THEN RStrip(SubSeq(s, 1, Len(s) - 1)) ELSE s

Strip(s) == RStrip(LStrip(s))

DigitValue(c) == IF c = "1" THEN 1 ELSE 2

\* the number written by a sequence of digits, read left to right
RECURSIVE DigitsValue(_)
DigitsValue(s) ==
    IF s = << >> THEN 0
    ELSE 10 * DigitsValue(SubSeq(s, 1, Len(s) - 1)) + DigitValue(s[Len(s)])

RECURSIVE PowerOfTen(_)
PowerOfTen(n) == IF n = 0 THEN 1 ELSE 10 * PowerOfTen(n - 1)

\* float(s) for a string: whitespace stripped, an optional sign, then digits
\* with at most one decimal point and at least one digit; anything else is a
\* ValueError. The value is the quotient << numerator, denominator >>.
FloatOfString(s) ==
    LET t      == Strip(s)
        signed == t # << >> /\ Head(t) = "-"
        body   == IF signed THEN Tail(t) ELSE t
        digits == SelectSeq(body, LAMBDA c : c \in Digits)
        points == SelectSeq(body, LAMBDA c : c = ".")
        fraction == IF points = << >> THEN 0
                    ELSE Len(body) - (CHOOSE k \in DOMAIN body : body[k] = ".")
    IN  IF /\ digits # << >>
           /\ Len(points) <= 1
           /\ Len(digits) + Len(points) = Len(body)
        THEN [raised |-> "none",
              value |-> << (IF signed THEN -1 ELSE 1) * DigitsValue(digits),
                           PowerOfTen(fraction) >>]
        ELSE [raised |-> "ValueError", value |-> NaNQ]

\* float(x)
Float(x) ==
    IF x.type = "NoneType" THEN [raised |-> "TypeError", value |-> NaNQ]
    ELSE IF x.type = "int" THEN [raised |-> "none", value |-> << x.value, 1 >>]
    ELSE FloatOfString(x.chars)

\* safe_float without its try / except
float_or_raise(x) == Float(x)

\* safe_float(x): float(x), or np.nan when float raised
safe_float(x) ==
    IF Float(x).raised = "none"
    THEN [raised |-> "none", value |-> Float(x).value]
    ELSE [raised |-> "none", value |-> NaNQ]

\* a row of SELECT * FROM NECIR_CSO_2011
SqlRow(i, vol, cnt) == [index |-> i, DischargeVolume |-> vol, DischargeCount |-> cnt]

\* the cells of a table built around one probe cell
TableCells(probe) == {probe, StrCell(<< "1" >>), NoneCell}

\* load_data_cso on the rows read from the database: both discharge columns
\* through safe_float, 'index' renamed to cso_id
LoadedCso(rows) ==
    [i \in DOMAIN rows |->
        [cso_id |-> rows[i].index,
         DischargeVolume |-> safe_float(rows[i].DischargeVolume).value,
         DischargeCount |-> safe_float(rows[i].DischargeCount).value]]

\* the exception load_data_cso ends with, if a call of safe_float raised
LoadRaised(rows) ==
    IF \E i \in DOMAIN rows : safe_float(rows[i].DischargeVolume).raised # "none"
    THEN safe_float((rows[CHOOSE i \in DOMAIN rows :
            safe_float(rows[i].DischargeVolume).raised # "none"]).DischargeVolume).raised
    ELSE IF \E i \in DOMAIN rows : safe_float(rows[i].DischargeCount).raised # "none"
    THEN safe_float((rows[CHOOSE i \in DOMAIN rows :
            safe_float(rows[i].DischargeCount).raised # "none"]).DischargeCount).raised
    ELSE "none"

\* pd.read_sql_query has returned
InitLoad ==
    /\ pc = "sql_read"
    /\ err = "none"
    /\ PipelineIdle
    /\ WmIdle
    /\ EeaIdle
    /\ CacheIdle
    /\ \E probe \in RawCells : \E k \in 0..MaxSqlRows :
         \E f \in [1..k -> TableCells(probe) \X TableCells(probe)] :
            sql_rows = [i \in 1..k |-> SqlRow(i, f[i][1], f[i][2])]
    /\ StanIdle
    /\ ChartIdle
    /\ RunIdle

LoadDataCso ==
    /\ pc = "sql_read"
    /\ IF LoadRaised(sql_rows) = "none"
       THEN /\ cso_loaded' = LoadedCso(sql_rows)
            /\ pc' = "cso_loaded"
            /\ err' = err
       ELSE /\ cso_loaded' = cso_loaded
            /\ pc' = "raised"
            /\ err' = LoadRaised(sql_rows)
    /\ UNCHANGED << log, cbg_smooth_radius, ejs_loaded, geo_towns_df,
                    geo_watersheds_df, geo_blockgroups_df,
                    data_cso, data_ejs, data_ins_g_bg,
                    data_ins_g_muni_j, data_ins_g_ws_j, data_egs_merge,
                    df_watershed_level, df_town_level >>
    /\ UNCHANGED wm_vars
    /\ UNCHANGED eea_vars
    /\ UNCHANGED cache_vars
    /\ UNCHANGED call_vars

SpecLoad == InitLoad /\ [][LoadDataCso]_vars

\* -------------------------------------------------------------- fit_stan_model
\* Series.unique(): the values in order of first appearance
RECURSIVE Unique(_)
Unique(s) ==
    IF s = << >> THEN << >>
    ELSE LET r == Unique(SubSeq(s, 1, Len(s) - 1))
         IN  IF s[Len(s)] \in Range(r) THEN r ELSE Append(r, s[Len(s)])

\* l = data_egs_merge[level_col].unique(); l = l[pd.isnull(l) == 0]
StanLevels(egs, level_col) ==
    SelectSeq(Unique(Column(egs, level_col)),
              LAMBDA v : v # (IF level_col = "ID" THEN None ELSE NullLabel))

\* data_egs_merge.groupby(level_col)['ACSTOTPOP'].sum().loc[l].values
StanPop(egs, level_col, l) ==
    [k \in DOMAIN l |->
        SumSkipNa(PopColumn(SelectSeq(egs, LAMBDA row : row[level_col] = l[k])))]

\* data_egs_merge.set_index('ID'); the tables of the model hold each ID once
SetIndex(rows, key) ==
    [k \in { rows[i][key] : i \in DOMAIN rows } |->
        rows[CHOOSE i \in DOMAIN rows : rows[i][key] = k]]

\* level_df[col].loc[l].values
StanX(level_df, col, l) == [k \in DOMAIN l |-> level_df[l[k]][col]]

\* a lookup that keeps only the regions the discharge table has a row for
LocKnown(table, l) ==
    LET known == SelectSeq(l, LAMBDA v : v \in DOMAIN table)
    IN  [k \in DOMAIN known |-> table[known[k]].DischargeVolume]

\* df_cso_level[self.discharge_vol_col].reindex(l).fillna(0).values
ReindexFillna(table, l) ==
    [k \in DOMAIN l |->
        IF l[k] \in DOMAIN table /\ ~ IsNaN(table[l[k]].DischargeVolume)
        THEN table[l[k]].DischargeVolume ELSE 0]

\* pop < 50, in the model's unit of 50 persons
MinPop == 1

\* np.isnan on an element of x: a NaN indicator at the block-group level, a
\* 0/0 weighted average at the other levels
IsNaNValue(v, level_col) == IF level_col = "ID" THEN v = NaN ELSE v = NaNQ

\* fit_stan_model up to the assertion: stan_dat and the regions it is about,
\* or the AssertionError
StanData(col, egs, level_df, df_cso_level, level_col) ==
    LET l    == StanLevels(egs, level_col)
        pop  == StanPop(egs, level_col, l)
        x    == StanX(level_df, col, l)
        y    == ReindexFillna(df_cso_level, l)
        keep == [k \in DOMAIN pop |-> ~ (pop[k] < MinPop)]
        kept == Masked(pop, keep)
        dat  == [J |-> Len(Masked(x, keep)),
                 x |-> Masked(x, keep),
                 y |-> Masked(y, keep),
                 \* pop[~sel_unpop] / np.mean(pop[~sel_unpop])
                 p |-> [k \in DOMAIN kept |->
                          NpDivide(kept[k] * Len(kept), SeqSum(kept))]]
    IN  [raised |-> IF \E k \in DOMAIN dat.x : IsNaNValue(dat.x[k], level_col)
                    THEN "AssertionError" ELSE "none",
         value |-> dat]

\* run_analysis, the regression loop: one call of fit_stan_model
FitStanModel ==
    /\ pc = "aggregated"
    /\ \E col \in Range(EJ_COLS) : \E level_col \in {"Watershed", "Town", "ID"} :
         LET level_df == IF level_col = "Watershed" THEN df_watershed_level
                         ELSE IF level_col = "Town" THEN df_town_level
                         ELSE SetIndex(data_egs_merge, "ID")
             df_cso_level == IF level_col = "Watershed" THEN data_ins_g_ws_j
                             ELSE IF level_col = "Town" THEN data_ins_g_muni_j
                             ELSE data_ins_g_bg
             r == StanData(col, data_egs_merge, level_df, df_cso_level, level_col)
         IN  /\ stan_args' = [col |-> col, level_col |-> level_col]
             /\ stan_dat' = r.value
             /\ err' = r.raised
             /\ pc' = IF r.raised = "none" THEN "stan_built" ELSE "raised"
    /\ UNCHANGED pipeline_vars
    /\ UNCHANGED wm_vars
    /\ UNCHANGED eea_vars
    /\ UNCHANGED cache_vars
    /\ UNCHANGED << sql_rows, chart_x, x_bins, x_bin_id >>
    /\ UNCHANGED run_vars

NextStan == Next \/ FitStanModel

\* the pipeline in exact mode, the mode whose tables fit_stan_model can read
InitStan ==
    /\ Init
    /\ cbg_smooth_radius = None
    /\ Len(cso_loaded) <= MaxFitEvents

SpecStan == InitStan /\ [][NextStan]_vars

\* ------------------------------------------- make_chart_ej_cso_comparison: bins
\* the indicator values of the regions, in tenths
ChartValues == {NaN, 2, 4, 7, 9}

\* s with v inserted before the first larger element
RECURSIVE Insert(_, _)
Insert(s, v) ==
    IF s = << >> THEN << v >>
    ELSE IF v <= Head(s) THEN << v >> \o s
    ELSE << Head(s) >> \o Insert(Tail(s), v)

RECURSIVE Sort(_)
Sort(s) == IF s = << >> THEN << >> ELSE Insert(Sort(Tail(s)), Head(s))

\* np.nanpercentile(x, q) for q = 25 k percent, times 4: linear interpolation
\* between the two sorted non-NaN values around position (n - 1) k / 4
NanPercentile4(x, k) ==
    LET s   == Sort(SelectSeq(x, LAMBDA v : ~ IsNaN(v)))
        pos == (Len(s) - 1) * k
        lo  == (pos \div 4) + 1
        r   == pos % 4
    IN  IF r = 0 THEN 4 * s[lo]
        ELSE 4 * s[lo] + r * (s[lo + 1] - s[lo])

\* x_bins = np.unique(np.nanpercentile(x, list(np.linspace(0, 100, 5)))), the
\* edges in quarters of a tenth
XBins(x) == SortedSeq({ NanPercentile4(x, k) : k \in 0..4 })

\* pd.cut(x, x_bins, labels=False): bin j is (x_bins[j], x_bins[j+1]], open on
\* the left; a NaN and a value in no bin get NaN
Cut(x, bins) ==
    [i \in DOMAIN x |->
        IF IsNaN(x[i]) THEN NaN
        ELSE IF \E j \in 1..(Len(bins) - 1) : bins[j] < 4 * x[i] /\ 4 * x[i] <= bins[j + 1]
        THEN (CHOOSE j \in 1..(Len(bins) - 1) :
                 bins[j] < 4 * x[i] /\ 4 * x[i] <= bins[j + 1]) - 1
        ELSE NaN]

\* the chart is asked for: x has been looked up, one value per region, and
\* at least one of them is a number
InitChart ==
    /\ pc = "chart_called"
    /\ err = "none"
    /\ PipelineIdle
    /\ WmIdle
    /\ EeaIdle
    /\ CacheIdle
    /\ sql_rows = Empty
    /\ StanIdle
    /\ \E n \in 1..MaxRegions : chart_x \in [1..n -> ChartValues]
    /\ \E i \in DOMAIN chart_x : ~ IsNaN(chart_x[i])
    /\ x_bins = Empty
    /\ x_bin_id = Empty
    /\ RunIdle

\* lines 717 and 719
BinRegions ==
    /\ pc = "chart_called"
    /\ x_bins' = XBins(chart_x)
    /\ x_bin_id' = Cut(chart_x, XBins(chart_x))
    /\ pc' = "binned"
    /\ UNCHANGED << err, sql_rows, stan_args, stan_dat, chart_x >>
    /\ UNCHANGED run_vars
    /\ UNCHANGED pipeline_vars
    /\ UNCHANGED wm_vars
    /\ UNCHANGED eea_vars
    /\ UNCHANGED cache_vars

SpecChart == InitChart /\ [][BinRegions]_vars

\* ----------------------------------------------------------------- run_analysis
\* run_analysis is called: the tables are still in the database and the
\* geometry files, the fact file may hold the lines of an earlier run
InitRun ==
    /\ pc = "run_called"
    /\ err = "none"
    /\ log = << >>
    /\ cbg_smooth_radius \in {None, Radius}
    /\ \E k \in 0..1 :
         \E f \in [1..k -> Positions \X Vols \X Counts] :
            cso_loaded = EventTable(k, f)
    /\ \E S \in SUBSET BlockGroups : ejs_loaded = EjsTable(S)
    /\ geo_towns_df = Empty /\ geo_watersheds_df = Empty
    /\ geo_blockgroups_df = Empty
    /\ data_cso = Empty /\ data_ejs = Empty
    /\ data_ins_g_bg = Empty /\ data_ins_g_muni_j = Empty
    /\ data_ins_g_ws_j = Empty /\ data_egs_merge = Empty
    /\ df_watershed_level = Empty /\ df_town_level = Empty
    /\ WmIdle
    /\ EeaIdle
    /\ CacheIdle
    /\ sql_rows = Empty
    /\ StanIdle
    /\ ChartIdle
    /\ fact_file \in { Empty, << "stale" >> }
    /\ disk = Empty
    /\ make_maps \in BOOLEAN
    /\ make_charts \in BOOLEAN
    /\ make_regression \in BOOLEAN

\* open(self.fact_file, 'w').close()
ClearFactFile ==
    /\ pc = "run_called"
    /\ fact_file' = << >>
    /\ pc' = "fact_file_cleared"
    /\ UNCHANGED << err, disk, make_maps, make_charts, make_regression >>
    /\ UNCHANGED << sql_rows, stan_args, stan_dat, chart_x, x_bins, x_bin_id >>
    /\ UNCHANGED pipeline_vars
    /\ UNCHANGED wm_vars
    /\ UNCHANGED eea_vars
    /\ UNCHANGED cache_vars

\* self.get_geo_files() and self.load_data()
LoadData ==
    /\ pc = "fact_file_cleared"
    /\ geo_towns_df' = << Polygon("T1", 0, 2) >>
    /\ geo_watersheds_df' = << Polygon("W1", 0, 4) >>
    /\ geo_blockgroups_df' = BlockGroupTable
    /\ data_cso' = cso_loaded
    /\ data_ejs' = ejs_loaded
    /\ pc' = "loaded"
    /\ UNCHANGED << err, log, cbg_smooth_radius, cso_loaded, ejs_loaded,
                    data_ins_g_bg, data_ins_g_muni_j, data_ins_g_ws_j,
                    data_egs_merge, df_watershed_level, df_town_level >>
    /\ UNCHANGED wm_vars
    /\ UNCHANGED eea_vars
    /\ UNCHANGED cache_vars
    /\ UNCHANGED call_vars

\* the six to_csv calls of run_analysis, by file name after the output slug
WrittenTables ==
    [data_cso           |-> data_cso,
     data_ins_g_bg      |-> data_ins_g_bg,
     data_ins_g_muni_j  |-> data_ins_g_muni_j,
     data_egs_merge     |-> data_egs_merge,
     df_watershed_level |-> df_watershed_level,
     df_town_level      |-> df_town_level]

\* disk with the file name written with content
WriteFile(files, name, content) ==
    [n \in DOMAIN files \cup {name} |-> IF n = name THEN content ELSE files[n]]

WriteTables ==
    /\ pc = "aggregated"
    /\ disk' = [n \in DOMAIN disk \cup DOMAIN WrittenTables |->
                  IF n \in DOMAIN WrittenTables THEN WrittenTables[n] ELSE disk[n]]
    /\ pc' = "tables_written"
    /\ UNCHANGED << err, fact_file, make_maps, make_charts, make_regression >>
    /\ UNCHANGED << sql_rows, stan_args, stan_dat, chart_x, x_bins, x_bin_id >>
    /\ UNCHANGED pipeline_vars
    /\ UNCHANGED wm_vars
    /\ UNCHANGED eea_vars
    /\ UNCHANGED cache_vars

\* one of the three optional stages: skipped when its switch is off, else it
\* writes its output or raises
Stage(switch, from, to, name, failure) ==
    /\ pc = from
    /\ \/ /\ ~ switch
          /\ pc' = to
          /\ UNCHANGED << err, disk, fact_file >>
       \/ /\ switch
          /\ pc' = to
          /\ disk' = WriteFile(disk, name, "drawn")
          /\ fact_file' = IF name = "stanfit"
                          THEN fact_file \o << "depend_cso" >> ELSE fact_file
          /\ UNCHANGED err
       \/ /\ switch
          /\ pc' = "raised"
          /\ err' = failure
          /\ UNCHANGED << disk, fact_file >>
    /\ UNCHANGED << make_maps, make_charts, make_regression >>
    /\ UNCHANGED << sql_rows, stan_args, stan_dat, chart_x, x_bins, x_bin_id >>
    /\ UNCHANGED pipeline_vars
    /\ UNCHANGED wm_vars
    /\ UNCHANGED eea_vars
    /\ UNCHANGED cache_vars

\* if self.make_maps: ...
MakeMaps == Stage(make_maps, "tables_written", "maps_done", "maps", "MapError")

\* if self.make_charts: ...
MakeCharts == Stage(make_charts, "maps_done", "charts_done", "charts", "ChartError")

\* if self.make_regression: ...
MakeRegression ==
    Stage(make_regression, "charts_done", "run_done", "stanfit", "RegressionError")

NextRun ==
    \/ ClearFactFile
    \/ LoadData
    \/ AssignCSO
    \/ AssignEJ
    \/ ApplyPopWeightedAvg
    \/ WriteTables
    \/ MakeMaps
    \/ MakeCharts
    \/ MakeRegression

SpecRun == InitRun /\ [][NextRun]_vars

\* =============================================================== properties
\* the sum of the function f over the finite set S
RECURSIVE SetSum(_, _)
SetSum(S, f) ==
    IF S = {} THEN 0
    ELSE LET a == CHOOSE a \in S : TRUE IN f[a] + SetSum(S \ {a}, f)

RECURSIVE SetProduct(_, _)
SetProduct(S, f) ==
    IF S = {} THEN 1
    ELSE LET a == CHOOSE a \in S : TRUE IN f[a] * SetProduct(S \ {a}, f)

\* a NaN volume or count adds nothing to a sum
Amount(v) == IF IsNaN(v) THEN 0 ELSE v

ExactMode    == cbg_smooth_radius = None
BufferedMode == cbg_smooth_radius # None
AssignRan    == pc \in {"assigned", "labelled", "aggregated", "raised"}
Aggregated   == pc = "aggregated"

\* the candidate block groups of the run: those with a demographic record
Candidates == CandidateBGs(ejs_loaded)

\* block group b's polygon contains the point at p
BGContains(b, p) == 2 * (b - 1) < p /\ p < 2 * b

\* the candidates whose polygon the event's buffer intersects, and
\* duplication(event)
Intersecting(ev) == { b \in Candidates : Dist(ev.latlon, b) <= cbg_smooth_radius }
Duplication(ev)  == Cardinality(Intersecting(ev))

\* what outfall id added to the aggregate row of block group b: the row sums
\* the rows of the assigned table that carry GEOID b
AddedVolume(id, b) ==
    SeqSum([i \in DOMAIN data_cso |->
              IF data_cso[i].cso_id = id /\ data_cso[i].GEOID = b
              THEN Amount(data_cso[i].DischargeVolume) ELSE 0])
AddedCount(id, b) ==
    SeqSum([i \in DOMAIN data_cso |->
              IF data_cso[i].cso_id = id /\ data_cso[i].GEOID = b
              THEN Amount(data_cso[i].DischargeCount) ELSE 0])

TableVolume(t) == SetSum(DOMAIN t, [k \in DOMAIN t |-> t[k].DischargeVolume])
TableCount(t)  == SetSum(DOMAIN t, [k \in DOMAIN t |-> t[k].DischargeCount])

\* C1: buffered mode conserves weight: what an event with duplication >= 1
\* adds to the block-group rows sums to its volume, an event with
\* duplication 0 adds nothing, and so the block-group volume table sums to
\* the volumes of the events with duplication >= 1.
C1_WeightConservation ==
    (Aggregated /\ BufferedMode) =>
        /\ \A i \in DOMAIN cso_loaded :
              SetSum(BlockGroups,
                     [b \in BlockGroups |-> AddedVolume(cso_loaded[i].cso_id, b)])
                 = IF Duplication(cso_loaded[i]) >= 1
                   THEN Amount(cso_loaded[i].DischargeVolume) ELSE 0
        /\ TableVolume(data_ins_g_bg)
              = SeqSum([i \in DOMAIN cso_loaded |->
                          IF Duplication(cso_loaded[i]) >= 1
                          THEN Amount(cso_loaded[i].DischargeVolume) ELSE 0])

\* the product of the duplication counts of the events that have one
CommonDenominator ==
    SetProduct({ i \in DOMAIN cso_loaded : Duplication(cso_loaded[i]) >= 1 },
               [i \in DOMAIN cso_loaded |-> Duplication(cso_loaded[i])])

\* C2: in buffered mode an event whose buffer intersects k candidates adds
\* volume/k and count/k to the row of each of them and nothing to any other
\* row, so every row holds the sum of volume/k over the events that reach it.
C2_EqualShares ==
    (Aggregated /\ BufferedMode) =>
        /\ \A i \in DOMAIN cso_loaded : \A b \in BlockGroups :
              LET ev == cso_loaded[i]
              IN  IF b \in Intersecting(ev)
                  THEN /\ Duplication(ev) * AddedVolume(ev.cso_id, b)
                             = Amount(ev.DischargeVolume)
                       /\ Duplication(ev) * AddedCount(ev.cso_id, b)
                             = Amount(ev.DischargeCount)
                  ELSE /\ AddedVolume(ev.cso_id, b) = 0
                       /\ AddedCount(ev.cso_id, b) = 0
        /\ \A b \in DOMAIN data_ins_g_bg :
              CommonDenominator * data_ins_g_bg[b].DischargeVolume
                 = SeqSum([i \in DOMAIN cso_loaded |->
                             IF b \in Intersecting(cso_loaded[i])
                             THEN Amount(cso_loaded[i].DischargeVolume)
                                  * (CommonDenominator \div Duplication(cso_loaded[i]))
                             ELSE 0])

\* the block-group identifiers the assignment gave to outfall id
AssignedGEOIDs(id) ==
    IF pc = "raised" THEN {}
    ELSE { data_cso[i].GEOID : i \in { j \in DOMAIN data_cso : data_cso[j].cso_id = id } }
            \ {None}

Logged(kind, id) == \E j \in DOMAIN log : log[j].msg = kind /\ log[j].key = id

\* C3: exact mode partitions the events: each gets at most one block group,
\* every row that carries a block group is a row of an input event, and every
\* input event that got none is logged as unattributable.
C3_PartitionExact ==
    (ExactMode /\ AssignRan) =>
        /\ \A i \in DOMAIN cso_loaded :
              /\ Cardinality(AssignedGEOIDs(cso_loaded[i].cso_id)) <= 1
              /\ AssignedGEOIDs(cso_loaded[i].cso_id) = {}
                    => Logged("unattributable", cso_loaded[i].cso_id)
        /\ pc # "raised" =>
              \A i \in DOMAIN data_cso :
                 \E j \in DOMAIN cso_loaded : data_cso[i].cso_id = cso_loaded[j].cso_id

\* the candidates at distance zero from the event's point
ZeroDistance(ev) == { b \in Candidates : Dist(ev.latlon, b) = 0 }
Ambiguous(ev)    == Cardinality(ZeroDistance(ev)) > 1

\* C4: an event at distance zero from several candidates does not make the
\* assignment raise; it gets the first of them in block-group order and an
\* ambiguity warning is logged.
C4_TieBreakExact ==
    (ExactMode /\ AssignRan) =>
        \A i \in DOMAIN cso_loaded :
           Ambiguous(cso_loaded[i]) =>
              /\ pc # "raised"
              /\ AssignedGEOIDs(cso_loaded[i].cso_id)
                    = { CHOOSE b \in ZeroDistance(cso_loaded[i]) :
                           \A c \in ZeroDistance(cso_loaded[i]) : b <= c }
              /\ Logged("ambiguous", cso_loaded[i].cso_id)

Containing(ev) == { b \in Candidates : BGContains(b, ev.latlon) }

\* C5: in exact mode an event contained by exactly one candidate gets that
\* candidate, an event contained by none gets a candidate at smallest
\* distance, and with a candidate at hand every event gets one.
C5_ExactAttribution ==
    (ExactMode /\ AssignRan) =>
        \A i \in DOMAIN cso_loaded :
           LET ev  == cso_loaded[i]
               got == AssignedGEOIDs(ev.cso_id)
           IN  /\ Cardinality(Containing(ev)) = 1 => got = Containing(ev)
               /\ (Containing(ev) = {} /\ Candidates # {}) =>
                     (got # {} /\ got \subseteq NearestBGs(ev.latlon, Candidates))
               /\ Candidates # {} => got # {}

\* ------------------------------------------------------ aggregation, exact mode
\* the events the exact-mode assignment gave a block group
Attributed == { i \in DOMAIN data_cso : data_cso[i].GEOID \in Candidates }

\* the Town / Watershed label of block group b in the labelled demographic table
LabelOfBG(b, key) ==
    LET j == CHOOSE j \in DOMAIN data_ejs : data_ejs[j].ID = b
    IN  data_ejs[j][key]

\* the summed volume of the attributed events
AttributedVolume ==
    SeqSum([i \in DOMAIN cso_loaded |->
              IF i \in Attributed THEN Amount(cso_loaded[i].DischargeVolume) ELSE 0])

\* the summed volume of the attributed events whose block group lies in a
\* named region of the family
NamedVolume(key) ==
    SeqSum([i \in DOMAIN cso_loaded |->
              IF i \in Attributed /\ LabelOfBG(data_cso[i].GEOID, key) # UNKNOWN
              THEN Amount(cso_loaded[i].DischargeVolume) ELSE 0])

NamedRows(t) == DOMAIN t \ {UNKNOWN}
NamedTableVolume(t) == SetSum(NamedRows(t), [k \in NamedRows(t) |-> t[k].DischargeVolume])

\* C6: in exact mode the volume column of the block-group table, of the
\* municipality table and of the watershed table each sum to the summed volume
\* of the attributed events; leaving the '[UNKNOWN]' row out of a table leaves
\* the summed volume of the events whose block group has a named region.
C6_AggregationAdditivity ==
    (Aggregated /\ ExactMode) =>
        /\ TableVolume(data_ins_g_bg) = AttributedVolume
        /\ TableVolume(data_ins_g_muni_j) = AttributedVolume
        /\ TableVolume(data_ins_g_ws_j) = AttributedVolume
        /\ NamedTableVolume(data_ins_g_muni_j) = NamedVolume("Town")
        /\ NamedTableVolume(data_ins_g_ws_j) = NamedVolume("Watershed")

\* two events in block groups of different towns, one of them without a town
C6_Witness ==
    /\ Aggregated /\ ExactMode
    /\ Len(cso_loaded) = 2
    /\ data_cso[1].GEOID = 1 /\ data_cso[2].GEOID = 2
    /\ cso_loaded[1].DischargeVolume = 1 /\ cso_loaded[2].DischargeVolume = 2
    /\ DOMAIN data_ins_g_muni_j = {"T2", UNKNOWN}
    /\ data_ins_g_muni_j["T2"].DischargeVolume = 1
    /\ data_ins_g_muni_j[UNKNOWN].DischargeVolume = 2
    /\ TableVolume(data_ins_g_ws_j) = 3

\* the events whose unique nearest candidate is block group b
EventsOf(b) ==
    { i \in DOMAIN cso_loaded : NearestBGs(cso_loaded[i].latlon, Candidates) = {b} }

\* C7: in exact mode the block-group table has a row for exactly the block
\* groups that got an event, and the row of block group b carries the summed
\* volume and the summed count of the events attributed to b and of no other
\* event.
C7_PerRegionAggregate ==
    (Aggregated /\ ExactMode) =>
        /\ DOMAIN data_ins_g_bg = { b \in BlockGroups : EventsOf(b) # {} }
        /\ \A b \in DOMAIN data_ins_g_bg :
              /\ data_ins_g_bg[b].DischargeVolume
                    = SeqSum([i \in DOMAIN cso_loaded |->
                                IF i \in EventsOf(b)
                                THEN Amount(cso_loaded[i].DischargeVolume) ELSE 0])
              /\ data_ins_g_bg[b].DischargeCount
                    = SeqSum([i \in DOMAIN cso_loaded |->
                                IF i \in EventsOf(b)
                                THEN Amount(cso_loaded[i].DischargeCount) ELSE 0])

\* one event in each of two candidate block groups: each row holds its own
\* event only
C7_Witness ==
    /\ Aggregated /\ ExactMode
    /\ Candidates = {1, 2}
    /\ Len(cso_loaded) = 2
    /\ cso_loaded[1].latlon = 3 /\ cso_loaded[1].DischargeVolume = 2
    /\ cso_loaded[2].latlon = 1 /\ cso_loaded[2].DischargeVolume = 1
    /\ DOMAIN data_ins_g_bg = {1, 2}
    /\ data_ins_g_bg[1] = [DischargeVolume |-> 1, DischargeCount |-> 1]
    /\ data_ins_g_bg[2] = [DischargeVolume |-> 2, DischargeCount |-> 1]

\* ------------------------------------------------ population-weighted average
PwaDone == pc = "pwa_done"

\* the rows of one Town of the merged demographic table
GroupRows(t) == SelectSeq(data_egs_merge, LAMBDA row : row.Town = t)

\* the rows of a group that enter the average of column col: population and
\* indicator both non-NaN
Used(rows, col) ==
    { i \in DOMAIN rows : ~IsNaN(rows[i].ACSTOTPOP) /\ ~IsNaN(rows[i][col]) }

\* two quotients are the same float: NaN equals NaN here, inf equals inf
QEq(q, r) ==
    IF q[2] = 0 \/ r[2] = 0
    THEN q[2] = 0 /\ r[2] = 0 /\ ((q[1] = 0) <=> (r[1] = 0))
    ELSE q[1] * r[2] = r[1] * q[2]

\* sum(population_i * indicator_i) / sum(population_i) over the used rows
UsedQuotient(rows, col) ==
    NpDivide(SeqSum([i \in DOMAIN rows |->
                       IF i \in Used(rows, col)
                       THEN rows[i].ACSTOTPOP * rows[i][col] ELSE 0]),
             SeqSum([i \in DOMAIN rows |->
                       IF i \in Used(rows, col) THEN rows[i].ACSTOTPOP ELSE 0]))

\* C8: for every group and every indicator column pop_weighted_average
\* returns sum(population * indicator) / sum(population), both sums over the
\* rows whose population and indicator are both non-NaN.
C8_PopWeightedAverage ==
    PwaDone =>
        \A t \in DOMAIN df_town_level : \A col \in Range(EJ_COLS) :
           QEq(df_town_level[t][col], UsedQuotient(GroupRows(t), col))

\* the total population of a group, NaN populations left out
TotalPop(rows) == SumSkipNa(PopColumn(rows))

\* the population of the used rows
UsedPop(rows, col) ==
    SeqSum([i \in DOMAIN rows |->
              IF i \in Used(rows, col) THEN rows[i].ACSTOTPOP ELSE 0])

\* C9: for a group of positive total population, with positive population
\* on the used rows, every returned value lies between the smallest and the
\* largest indicator value of the used rows.
C9_WeightedAverageBounds ==
    PwaDone =>
        \A t \in DOMAIN df_town_level : \A col \in Range(EJ_COLS) :
           LET rows == GroupRows(t)
               q    == df_town_level[t][col]
           IN  (TotalPop(rows) > 0 /\ UsedPop(rows, col) > 0) =>
                  /\ q[2] > 0
                  /\ \E i \in Used(rows, col) : rows[i][col] * q[2] <= q[1]
                  /\ \E i \in Used(rows, col) : q[1] <= rows[i][col] * q[2]

\* every population of the group is 0 or NaN
ZeroPopulation(rows) ==
    \A i \in DOMAIN rows : rows[i].ACSTOTPOP = 0 \/ IsNaN(rows[i].ACSTOTPOP)

\* what the code's two skip-NaN sums give for a group taken on its own
OwnQuotient(rows, col) ==
    << SeqSum([i \in DOMAIN rows |->
                 IF i \in Used(rows, col)
                 THEN rows[i].ACSTOTPOP * rows[i][col] ELSE 0]),
       SeqSum([i \in DOMAIN rows |-> Amount(rows[i].ACSTOTPOP)]) >>

\* C10: a group whose populations are all 0 or NaN gets NaN in every
\* indicator column, nothing is raised, the group keeps its row, and every
\* group of positive population gets the quotient of its own rows.
C10_ZeroDenominator ==
    PwaDone =>
        /\ err = "none"
        /\ DOMAIN df_town_level = { data_egs_merge[i].Town : i \in DOMAIN data_egs_merge }
        /\ \A t \in DOMAIN df_town_level : \A col \in Range(EJ_COLS) :
              IF ZeroPopulation(GroupRows(t))
              THEN df_town_level[t][col] = NaNQ
              ELSE /\ df_town_level[t][col][2] > 0
                   /\ QEq(df_town_level[t][col], OwnQuotient(GroupRows(t), col))

\* Town T1 holds a zero and a NaN population, Town T2 a populated block group
C10_Witness ==
    /\ PwaDone
    /\ Len(data_egs_merge) = 3
    /\ data_egs_merge[1].Town = "T1" /\ data_egs_merge[1].ACSTOTPOP = 0
    /\ data_egs_merge[1].MINORPCT = 9
    /\ data_egs_merge[2].Town = "T1" /\ IsNaN(data_egs_merge[2].ACSTOTPOP)
    /\ data_egs_merge[3].Town = "T2" /\ data_egs_merge[3].ACSTOTPOP = 2
    /\ data_egs_merge[3].MINORPCT = 4
    /\ df_town_level["T1"]["MINORPCT"] = NaNQ
    /\ df_town_level["T2"]["MINORPCT"] = << 8, 2 >>

\* ------------------------------------------------------- unlabelled block groups
Labelled == pc \in {"labelled", "aggregated"}

\* no polygon of geo_df contains block group b's centroid
Uncontained(geo_df, b) ==
    \A k \in DOMAIN geo_df : ~IntervalContains(geo_df[k], Centroid(b))

\* C11: a block group whose centroid no municipality (watershed) polygon
\* contains gets a null municipality (watershed) label, and the municipality
\* and watershed volume tables and weighted-average tables have no row keyed
\* by the sentinel '[UNKNOWN]'.
C11_UnlabelledExcluded ==
    /\ Labelled =>
          \A j \in DOMAIN data_ejs :
             /\ Uncontained(geo_towns_df, data_ejs[j].ID)
                   => data_ejs[j].Town = NullLabel
             /\ Uncontained(geo_watersheds_df, data_ejs[j].ID)
                   => data_ejs[j].Watershed = NullLabel
    /\ Aggregated =>
          /\ UNKNOWN \notin DOMAIN data_ins_g_muni_j
          /\ UNKNOWN \notin DOMAIN data_ins_g_ws_j
          /\ UNKNOWN \notin DOMAIN df_town_level
          /\ UNKNOWN \notin DOMAIN df_watershed_level

\* --------------------------------------------------- label propagation by centroid
\* the polygons of geo_df whose interior holds block group b's centroid 2b - 1
CentroidIn(geo_df, b) ==
    { k \in DOMAIN geo_df : geo_df[k].lo < 2 * b - 1 /\ 2 * b - 1 < geo_df[k].hi }

\* the names of those polygons
CentroidNames(geo_df, b) == { geo_df[k].name : k \in CentroidIn(geo_df, b) }

\* the polygons of geo_df that share more than a boundary point with block
\* group b = [2(b-1), 2b]
Overlapping(geo_df, b) ==
    { k \in DOMAIN geo_df : geo_df[k].lo < 2 * b /\ 2 * (b - 1) < geo_df[k].hi }

\* C12: a block group with a demographic record whose centroid lies in
\* exactly one municipality (watershed) polygon is labelled with that
\* polygon's name, and a label is never the name of a polygon that does not
\* contain the centroid: it is a containing polygon's name or '[UNKNOWN]'.
C12_LabelByCentroid ==
    Labelled =>
        \A j \in DOMAIN data_ejs :
           LET b == data_ejs[j].ID
           IN  /\ Cardinality(CentroidIn(geo_towns_df, b)) = 1
                     => {data_ejs[j].Town} = CentroidNames(geo_towns_df, b)
               /\ Cardinality(CentroidIn(geo_watersheds_df, b)) = 1
                     => {data_ejs[j].Watershed} = CentroidNames(geo_watersheds_df, b)
               /\ data_ejs[j].Town \in CentroidNames(geo_towns_df, b) \cup {UNKNOWN}
               /\ data_ejs[j].Watershed
                     \in CentroidNames(geo_watersheds_df, b) \cup {UNKNOWN}

\* block group 1 is overlapped by municipality T1, which stops at its
\* centroid, and its centroid lies in municipality T2 alone: the label is T2
C12_Witness ==
    /\ pc = "labelled"
    /\ Len(geo_towns_df) = 2
    /\ Overlapping(geo_towns_df, 1) = {1, 2}
    /\ CentroidIn(geo_towns_df, 1) = {2}
    /\ \E j \in DOMAIN data_ejs :
          /\ data_ejs[j].ID = 1
          /\ data_ejs[j].Town = "T2"
          /\ CentroidIn(geo_watersheds_df, 1) = {1}
          /\ data_ejs[j].Watershed = "W1"

\* ------------------------------------------------------------ candidate restriction
\* the block-group identifiers that have a demographic record
RecordIDs == { ejs_loaded[j].ID : j \in DOMAIN ejs_loaded }

\* the block groups with a demographic record within the radius of the point p
RecordedWithin(p) ==
    { b \in BlockGroups : b \in RecordIDs /\ Dist(p, b) <= cbg_smooth_radius }

\* the loaded event with outfall id
LoadedEvent(id) == cso_loaded[CHOOSE i \in DOMAIN cso_loaded : cso_loaded[i].cso_id = id]

\* C13: in both modes every block-group identifier the assignment gives to an
\* event is the identifier of a demographic record, and in buffered mode an
\* event's duplication is the number of block groups with a demographic
\* record that its buffer intersects.
C13_CandidateRestriction ==
    (AssignRan /\ pc # "raised") =>
        \A i \in DOMAIN data_cso :
           data_cso[i].cso_id # None =>
              /\ data_cso[i].GEOID # None => data_cso[i].GEOID \in RecordIDs
              /\ BufferedMode =>
                    /\ data_cso[i].GEOID \in RecordIDs
                    /\ data_cso[i].cso_duplication
                          = Cardinality(RecordedWithin(LoadedEvent(data_cso[i].cso_id).latlon))

\* buffered mode, only block group 2 has a demographic record, and an outfall
\* inside block group 1 reaches block group 2: one row, duplication 1
C13_Witness ==
    /\ pc = "assigned" /\ BufferedMode
    /\ RecordIDs = {2}
    /\ Len(cso_loaded) = 1 /\ cso_loaded[1].latlon = 1
    /\ Len(data_cso) = 1
    /\ data_cso[1].cso_id = 1 /\ data_cso[1].GEOID = 2
    /\ data_cso[1].cso_duplication = 1

\* ---------------------------------------------------------- bootstrap resampling
WmFiltered == pc \in {"wm_loop", "wm_done"} \/ (pc = "raised" /\ wm_args # Empty)

\* the rows of the call whose value and weight are both numbers, in order
UsableRows ==
    SelectSeq([k \in DOMAIN wm_args.x |-> << wm_args.x[k], wm_args.weights[k] >>],
              LAMBDA row : row[1] # NaN /\ row[2] # NaN)

\* the weighted mean of the rows of UsableRows picked by the index vector s
PickedAverage(s) ==
    FRound(FSum([k \in DOMAIN s |-> FRound(UsableRows[s[k]][1] * UsableRows[s[k]][2], 1)]),
           FSum([k \in DOMAIN s |-> UsableRows[s[k]][2]]))

\* C14: weight_mean first removes the rows with a NaN value or weight; every
\* resample picks len(values) indices of the remaining rows and uses the
\* value and the weight of the same picked row; exactly N resamples have
\* been drawn when it returns.
C14_BootstrapResampling ==
    /\ WmFiltered =>
          /\ Len(wm_x) = Len(UsableRows) /\ Len(wm_weights) = Len(UsableRows)
          /\ \A k \in DOMAIN wm_x :
                << wm_x[k], wm_weights[k] >> = UsableRows[k]
          /\ wm_sel # Empty =>
                /\ Len(wm_sel) = Len(UsableRows)
                /\ \A k \in DOMAIN wm_sel : wm_sel[k] \in DOMAIN UsableRows
          /\ (pc # "raised" /\ wm_i >= 1) => wm_avgs[wm_i] = PickedAverage(wm_sel)
          /\ wm_i <= wm_args.N
    /\ pc = "wm_done" => (wm_i = wm_args.N /\ Len(wm_avgs) = wm_args.N)

\* a NaN row and two different rows, the last resample picking row 2 then
\* row 1: the average pairs 5 with weight 3 and 7 with weight 2
C14_Witness ==
    /\ pc = "wm_done"
    /\ wm_args = [x |-> << NaN, 7, 5 >>, weights |-> << 2, 2, 3 >>, N |-> 2]
    /\ wm_x = << 7, 5 >> /\ wm_weights = << 2, 3 >>
    /\ wm_sel = << 2, 1 >>
    /\ wm_avgs[2] = PickedAverage(<< 2, 1 >>)
    /\ wm_avgs[2] # wm_avgs[1]

\* ----------------------------------------------------------- bootstrap consistency
\* every usable row of the call has the value v and a positive weight
ConstantInput(v) ==
    /\ UsableRows # << >>
    /\ \A k \in DOMAIN UsableRows : UsableRows[k][1] = v /\ UsableRows[k][2] > 0

Abs(a) == IF a < 0 THEN -a ELSE a

\* C15 as stated: with every usable row at the same value v and a positive
\* weight, weight_mean returns exactly mean v and standard deviation 0.
C15_ExactConsistency ==
    pc = "wm_done" =>
        \A v \in WmValues \ {NaN} :
           ConstantInput(v) => (wm_ret.mean = v /\ wm_ret.std[1] = 0)

\* C15, amended: with every usable row at the same value v and a positive
\* weight, every resample average and the returned mean lie within one float
\* spacing of v, the squared deviations under the returned standard
\* deviation sum to at most N spacings squared, and the standard deviation
\* is exactly 0 when N = 1.
C15_ConsistencyUpToRounding ==
    pc = "wm_done" =>
        \A v \in WmValues \ {NaN} :
           ConstantInput(v) =>
              /\ \A k \in DOMAIN wm_avgs : Abs(wm_avgs[k] - v) <= Ulp(v, 1, 1)
              /\ Abs(wm_ret.mean - v) <= Ulp(v, 1, 1)
              /\ wm_ret.std[1] <= wm_args.N * Ulp(v, 1, 1) * Ulp(v, 1, 1)
              /\ wm_args.N = 1 => wm_ret.std[1] = 0

\* two rows of value 7 with weights 2 and 3, two resamples: one averages to 7,
\* the other rounds to 6, and the standard deviation is not 0
C15_Witness ==
    /\ pc = "wm_done"
    /\ wm_args = [x |-> << 7, 7 >>, weights |-> << 2, 3 >>, N |-> 2]
    /\ wm_avgs = << 7, 6 >>
    /\ wm_ret.std[1] > 0

\* ------------------------------------------------------- undefined bootstrap input
\* the picked weights of the latest resample sum to zero
ZeroWeightResample ==
    /\ wm_sel # Empty
    /\ FSum([k \in DOMAIN wm_sel |-> UsableRows[wm_sel[k]][2]]) = 0

\* C16: a call of weight_mean with no usable row, or whose resample picks
\* weights that sum to zero, does not raise, and returns NaN for the mean and
\* for the standard deviation.
C16_UndefinedInputGivesNaN ==
    (/\ wm_args # Empty
     /\ pc # "wm_call"
     /\ (UsableRows = << >> \/ ZeroWeightResample)) =>
        /\ pc # "raised"
        /\ pc = "wm_done" => (wm_ret.mean = NaN /\ wm_ret.std = NaNQ)

\* ------------------------------------------------------------ configuration errors
\* the run's configuration is structurally unusable
BadConfiguration ==
    \/ Candidates = {}
    \/ cso_loaded = << >>
    \/ (BufferedMode /\ cbg_smooth_radius <= 0)

NoAggregateTable ==
    /\ data_ins_g_bg = Empty /\ data_ins_g_muni_j = Empty
    /\ data_ins_g_ws_j = Empty /\ data_egs_merge = Empty
    /\ df_watershed_level = Empty /\ df_town_level = Empty

\* C17: a run with no candidate block group, no event, or a buffered radius
\* <= 0 stops with a configuration error before the assignment: it never gets
\* past the loaded state except by raising that error, it produces no
\* aggregate table, and no event comes back with a missing block group.
C17_ConfigurationErrorsFatal ==
    (pc \in {"loaded", "assigned", "labelled", "aggregated", "raised"}
        /\ BadConfiguration) =>
        /\ pc \in {"loaded", "raised"}
        /\ pc = "raised" => err = "ConfigurationError"
        /\ NoAggregateTable
        /\ \A i \in DOMAIN data_cso :
              "GEOID" \in DOMAIN data_cso[i] => data_cso[i].GEOID # None

\* ------------------------------------------------- events with missing coordinates
Transformed == pc = "transformed" \/ (pc = "raised" /\ stdout # Empty)

\* the report's coordinates once the state list has been consulted: its own
\* when it has a latitude, else the list's
CoordsAfterLookup(r) ==
    IF r.latitude # NaN THEN << r.latitude, r.longitude >>
    ELSE IF r.cso_id \in DOMAIN df_lat_long_cso
         THEN << df_lat_long_cso[r.cso_id].Lat, df_lat_long_cso[r.cso_id].Long >>
         ELSE << NaN, NaN >>

\* the reports whose latitude or longitude is still missing after the lookup
StillMissing ==
    { k \in DOMAIN data_cso_filtered_reports :
        LET c == CoordsAfterLookup(data_cso_filtered_reports[k])
        IN  c[1] = NaN \/ c[2] = NaN }

\* the number of reports counted into the rows of the per-outfall table
CountedReports ==
    SetSum(DOMAIN df_per_outfall,
           [key \in DOMAIN df_per_outfall |-> df_per_outfall[key].DischargeCount])

\* C18: a report whose latitude or longitude is still missing after the
\* lookup in the state outfall list enters no row of the per-outfall table
\* (so it reaches no block group and no aggregate), and the run records it:
\* the count of missing coordinates printed after the lookup counts every
\* such report.
C18_MissingCoordinatesRecorded ==
    Transformed =>
        /\ \A key \in DOMAIN df_per_outfall : key[2] # NaN /\ key[3] # NaN
        /\ pc = "transformed" =>
              CountedReports = Len(data_cso_filtered_reports) - Cardinality(StillMissing)
        /\ \E j \in DOMAIN stdout :
              /\ stdout[j].msg = "Missing outfall lat/longs after replacement"
              /\ stdout[j].key = Cardinality(StillMissing)

C20_PipelineCompletes ==
    (~ BadConfiguration) =>
        /\ pc # "raised"
        /\ err = "none"
        /\ Aggregated => ~ NoAggregateTable

\* ---------------------------------------------------------- buffered-mode output
\* the table value v is the quotient q
IsQuotient(v, q) ==
    IF q = NaNQ THEN IsNaN(v)
    ELSE (~ IsNaN(v)) /\ v * q[2] = q[1]

\* the smoothed discharge of the candidate block groups of the run
RunSmoothed ==
    SmoothedDischarge(BufferedResult(cso_loaded, Candidates, cbg_smooth_radius))

\* C21: in buffered mode the assignment returns one row per candidate block
\* group, its discharge columns hold the block group's smooth_discharge
\* value, and the block-group aggregate holds that value too.
C21_BufferedOutputSmoothed ==
    (BufferedMode /\ pc \in {"assigned", "labelled", "aggregated"}) =>
        /\ \A b \in Candidates :
              Cardinality({ i \in DOMAIN data_cso : data_cso[i].GEOID = b }) = 1
        /\ \A i \in DOMAIN data_cso :
              /\ data_cso[i].GEOID \in Candidates
              /\ IsQuotient(data_cso[i].DischargeVolume,
                            RunSmoothed[data_cso[i].GEOID].DischargeVolume)
              /\ IsQuotient(data_cso[i].DischargeCount,
                            RunSmoothed[data_cso[i].GEOID].DischargeCount)
        /\ Aggregated =>
              \A b \in DOMAIN data_ins_g_bg :
                 IsQuotient(data_ins_g_bg[b].DischargeVolume,
                            RunSmoothed[b].DischargeVolume)

\* ------------------------------------------------------ lenient numeric coercion
LoadReturned == pc \in {"cso_loaded", "raised"}

\* C22: load_data_cso never raises on a cell; it returns one row per row
\* read, in order, and each discharge cell is float(cell) when float accepts
\* the cell and NaN when it does not.
C22_LenientCoercion ==
    LoadReturned =>
        /\ pc = "cso_loaded" /\ err = "none"
        /\ Len(cso_loaded) = Len(sql_rows)
        /\ \A i \in DOMAIN sql_rows :
              /\ cso_loaded[i].cso_id = sql_rows[i].index
              /\ cso_loaded[i].DischargeVolume
                    = IF Float(sql_rows[i].DischargeVolume).raised = "none"
                      THEN Float(sql_rows[i].DischargeVolume).value ELSE NaNQ
              /\ cso_loaded[i].DischargeCount
                    = IF Float(sql_rows[i].DischargeCount).raised = "none"
                      THEN Float(sql_rows[i].DischargeCount).value ELSE NaNQ

\* a table has been loaded that holds a NULL, a non-numeric string and a
\* numeric string
C22_Witness ==
    /\ pc = "cso_loaded"
    /\ Len(sql_rows) = 2
    /\ sql_rows[1].DischargeVolume = NoneCell
    /\ sql_rows[1].DischargeCount = StrCell(<< "1" >>)
    /\ sql_rows[2].DischargeVolume = StrCell(<< "a", "1" >>)
    /\ sql_rows[2].DischargeCount = NoneCell
    /\ cso_loaded[1].DischargeVolume = NaNQ
    /\ cso_loaded[1].DischargeCount = << 1, 1 >>
    /\ cso_loaded[2].DischargeVolume = NaNQ

\* ----------------------------------------------------- tie-break of the labels
\* the first polygon of geo_df, in table order, that contains b's centroid
FirstContaining(geo_df, b) ==
    geo_df[CHOOSE k \in CentroidIn(geo_df, b) :
              \A m \in CentroidIn(geo_df, b) : k <= m]

\* the log holds the message that n polygons of a kind were found for b
LoggedCount(geo_type, b, n) ==
    \E j \in DOMAIN log :
       /\ log[j].msg = geo_type \o "s were found; will pick the first"
       /\ log[j].key = b
       /\ log[j].count = n

\* C23: a block group whose centroid lies in more than one municipality
\* (watershed) polygon does not stop the labelling; a message with the block
\* group and the number of polygons is logged, and the label is the name of
\* the first containing polygon in table order.
C23_LabelTieBreak ==
    Labelled =>
        \A j \in DOMAIN data_ejs :
           LET b == data_ejs[j].ID
           IN  /\ Cardinality(CentroidIn(geo_towns_df, b)) > 1 =>
                     /\ err = "none"
                     /\ LoggedCount("Town", b, Cardinality(CentroidIn(geo_towns_df, b)))
                     /\ data_ejs[j].Town = FirstContaining(geo_towns_df, b).name
               /\ Cardinality(CentroidIn(geo_watersheds_df, b)) > 1 =>
                     /\ err = "none"
                     /\ LoggedCount("Watershed", b,
                                    Cardinality(CentroidIn(geo_watersheds_df, b)))
                     /\ data_ejs[j].Watershed
                           = FirstContaining(geo_watersheds_df, b).name

\* block group 2's centroid lies in both municipalities T1 and T2; it was
\* labelled T1
C23_Witness ==
    /\ pc = "labelled"
    /\ CentroidIn(geo_towns_df, 2) = {1, 2}
    /\ \E j \in DOMAIN data_ejs :
          /\ data_ejs[j].ID = 2
          /\ data_ejs[j].Town = "T1"
    /\ LoggedCount("Town", 2, 2)

\* ------------------------------------------------------------ read-only inputs
\* C24: no step of the run changes the caller's event table, demographic
\* table or polygon tables, and the aggregation changes neither the assigned
\* event table nor the labelled demographic table it is handed.
C24_InputsReadOnly ==
    [][/\ cso_loaded' = cso_loaded
       /\ ejs_loaded' = ejs_loaded
       /\ geo_towns_df' = geo_towns_df
       /\ geo_watersheds_df' = geo_watersheds_df
       /\ geo_blockgroups_df' = geo_blockgroups_df
       /\ pc = "labelled" => (data_cso' = data_cso /\ data_ejs' = data_ejs)]_vars

\* the three functions have run in exact mode: the returned tables carry
\* GEOID, Town and Watershed, the caller's tables do not
C24_Witness ==
    /\ pc = "aggregated"
    /\ ExactMode
    /\ Len(cso_loaded) = NumEvents
    /\ Len(ejs_loaded) = NumBG
    /\ \A i \in DOMAIN data_cso : data_cso[i].GEOID \in BlockGroups
    /\ \A i \in DOMAIN cso_loaded : "GEOID" \notin DOMAIN cso_loaded[i]
    /\ \A j \in DOMAIN data_ejs : data_ejs[j].Town = "T1" \/ data_ejs[j].Town = UNKNOWN
    /\ \A j \in DOMAIN ejs_loaded : "Town" \notin DOMAIN ejs_loaded[j]
    /\ geo_blockgroups_df = BlockGroupTable

\* ------------------------------------------------------ regression input triple
\* the total population of region v at the level of the latest fit
RegionPop(v) ==
    SumSkipNa(PopColumn(SelectSeq(data_egs_merge,
                LAMBDA row : row[stan_args.level_col] = v)))

\* the regions of that level with a non-null label and a population of at
\* least 50, in the order of data_egs_merge
FitRegions ==
    SelectSeq(StanLevels(data_egs_merge, stan_args.level_col),
              LAMBDA v : RegionPop(v) >= MinPop)

\* the indicator table and the discharge table of that level
FitLevelDf ==
    IF stan_args.level_col = "Watershed" THEN df_watershed_level
    ELSE IF stan_args.level_col = "Town" THEN df_town_level
    ELSE SetIndex(data_egs_merge, "ID")

FitCsoDf ==
    IF stan_args.level_col = "Watershed" THEN data_ins_g_ws_j
    ELSE IF stan_args.level_col = "Town" THEN data_ins_g_muni_j
    ELSE data_ins_g_bg

\* the block groups of region v
RegionBGs(v) ==
    { data_egs_merge[j].ID :
        j \in { i \in DOMAIN data_egs_merge :
                  data_egs_merge[i][stan_args.level_col] = v } }

LabelOf(b, key) ==
    data_ejs[CHOOSE j \in DOMAIN data_ejs : data_ejs[j].ID = b][key]

\* the rows of the assigned event table whose block group carries label t
EventsLabelled(key, t) ==
    { i \in DOMAIN data_cso :
        /\ data_cso[i].GEOID # None
        /\ \E j \in DOMAIN data_ejs : data_ejs[j].ID = data_cso[i].GEOID
        /\ LabelOf(data_cso[i].GEOID, key) = t }

LabelledVolume(key, t) ==
    SeqSum([i \in DOMAIN data_cso |->
              IF i \in EventsLabelled(key, t)
              THEN Amount(data_cso[i].DischargeVolume) ELSE 0])

LabelledCount(key, t) ==
    SeqSum([i \in DOMAIN data_cso |->
              IF i \in EventsLabelled(key, t)
              THEN Amount(data_cso[i].DischargeCount) ELSE 0])

\* C26: in exact mode the row of a municipality (watershed) holds the summed
\* volume and count of exactly the events whose block group was given that
\* label, so each attributed event is counted in the row of its block
\* group's label and in no other row.
C26_AttributionThroughBlockGroup ==
    (Aggregated /\ ExactMode) =>
        /\ \A t \in DOMAIN data_ins_g_muni_j :
              /\ data_ins_g_muni_j[t].DischargeVolume = LabelledVolume("Town", t)
              /\ data_ins_g_muni_j[t].DischargeCount = LabelledCount("Town", t)
        /\ \A w \in DOMAIN data_ins_g_ws_j :
              /\ data_ins_g_ws_j[w].DischargeVolume = LabelledVolume("Watershed", w)
              /\ data_ins_g_ws_j[w].DischargeCount = LabelledCount("Watershed", w)
        /\ \A i \in DOMAIN data_cso :
              (data_cso[i].GEOID # None) =>
                 /\ LabelOf(data_cso[i].GEOID, "Town") \in DOMAIN data_ins_g_muni_j
                 /\ LabelOf(data_cso[i].GEOID, "Watershed") \in DOMAIN data_ins_g_ws_j

\* an event of volume 2 in a block group of town T2 and one of volume 1 in a
\* block group of town T1, in different watersheds
C26_Witness ==
    /\ Aggregated /\ ExactMode
    /\ Len(data_cso) = 2
    /\ data_cso[1].GEOID = 1 /\ data_cso[1].DischargeVolume = 2
    /\ data_cso[2].GEOID = 2 /\ data_cso[2].DischargeVolume = 1
    /\ LabelOf(1, "Town") = "T2" /\ LabelOf(2, "Town") = "T1"
    /\ LabelOf(1, "Watershed") = "W1" /\ LabelOf(2, "Watershed") = UNKNOWN
    /\ data_ins_g_muni_j["T2"].DischargeVolume = 2
    /\ data_ins_g_muni_j["T1"].DischargeVolume = 1
    /\ data_ins_g_ws_j["W1"].DischargeVolume = 2

\* ------------------------------------------------------------ percentile binning
\* C27: every region with a non-NaN indicator value is placed in one of the
\* bins whose weighted means are plotted, the regions with the smallest and
\* the largest value included.
C27_EveryRegionBinned ==
    pc = "binned" =>
        \A i \in DOMAIN chart_x :
           (~ IsNaN(chart_x[i])) =>
              /\ ~ IsNaN(x_bin_id[i])
              /\ x_bin_id[i] \in 0..(Len(x_bins) - 2)

\* ------------------------------------------------------------ per-outfall roll-up
\* the reports after the coordinate lookup
FilledReports == FillMissing(data_cso_filtered_reports, df_lat_long_cso)

\* the reports with outfall id, latitude and longitude equal to key
ReportsAt(key) ==
    { k \in DOMAIN FilledReports :
        << FilledReports[k].cso_id, FilledReports[k].latitude,
           FilledReports[k].longitude >> = key }

\* C28: each row of the per-outfall table is one (cso_id, latitude,
\* longitude); its count is the number of reports with that key, its volume
\* their summed volume over 1e6; the counts add up to the number of reports
\* handed in, so no report is lost.
C28_RollUpKeepsEveryReport ==
    pc = "transformed" =>
        /\ \A key \in DOMAIN df_per_outfall :
              /\ df_per_outfall[key].DischargeCount = Cardinality(ReportsAt(key))
              /\ df_per_outfall[key].DischargeVolume
                    = << SeqSum([k \in DOMAIN FilledReports |->
                                   IF k \in ReportsAt(key)
                                   THEN FilledReports[k].DischargeVolume ELSE 0]),
                         1000000 >>
        /\ CountedReports = Len(data_cso_filtered_reports)

\* ------------------------------------------------------------ total label map
\* the TOWN / NAME values of a polygon table
PolygonNames(geo_df) == { geo_df[k].name : k \in DOMAIN geo_df }

\* C29: label propagation returns one row per demographic row handed in, in
\* the same order and with the same identifier and demographic values; Town
\* and Watershed of every row are a polygon name of the matching table or
\* '[UNKNOWN]', and a row without a block-group polygon gets '[UNKNOWN]'.
C29_LabelMapTotal ==
    Labelled =>
        /\ Len(data_ejs) = Len(ejs_loaded)
        /\ \A j \in DOMAIN ejs_loaded :
              /\ j \in DOMAIN data_ejs
              /\ data_ejs[j].ID = ejs_loaded[j].ID
              /\ data_ejs[j].ACSTOTPOP = ejs_loaded[j].ACSTOTPOP
              /\ \A col \in Range(EJ_COLS) : data_ejs[j][col] = ejs_loaded[j][col]
              /\ data_ejs[j].Town \in PolygonNames(geo_towns_df) \cup {UNKNOWN}
              /\ data_ejs[j].Watershed \in PolygonNames(geo_watersheds_df) \cup {UNKNOWN}
              /\ data_ejs[j].ID \notin BlockGroups =>
                    /\ data_ejs[j].Town = UNKNOWN
                    /\ data_ejs[j].Watershed = UNKNOWN

\* a demographic row without a block-group polygon was kept and labelled
\* '[UNKNOWN]' next to a row labelled with its municipality and watershed
C29_Witness ==
    /\ pc = "labelled"
    /\ Len(ejs_loaded) = NumBG + 1
    /\ data_ejs[1].Town = "T1" /\ data_ejs[1].Watershed = "W1"
    /\ data_ejs[NumBG + 1].ID = NumBG + 1
    /\ data_ejs[NumBG + 1].Town = UNKNOWN
    /\ data_ejs[NumBG + 1].Watershed = UNKNOWN

\* the program counter values after the aggregation of run_analysis returned
AfterAggregation ==
    {"aggregated", "tables_written", "maps_done", "charts_done", "run_done"}

\* a map, chart or regression stage has begun: it finished, or it raised
StageBegun ==
    \/ pc \in {"maps_done", "charts_done", "run_done"}
    \/ pc = "raised" /\ err \in {"MapError", "ChartError", "RegressionError"}

\* the six tables the aggregation returns, by the name of their attribute
AggregateTables ==
    [data_ins_g_bg      |-> data_ins_g_bg,
     data_ins_g_muni_j  |-> data_ins_g_muni_j,
     data_ins_g_ws_j    |-> data_ins_g_ws_j,
     data_egs_merge     |-> data_egs_merge,
     df_watershed_level |-> df_watershed_level,
     df_town_level      |-> df_town_level]

\* nothing is loaded or written before the fact file is emptied, and no line
\* of an earlier run survives
FactFileEmptiedFirst ==
    /\ pc = "run_called" =>
          /\ data_cso = Empty /\ data_ejs = Empty
          /\ geo_blockgroups_df = Empty
          /\ disk = Empty
    /\ pc # "run_called" => "stale" \notin Range(fact_file)

\* the aggregation ran on the assigned events and the labelled demographic table
LabelledBeforeAggregation ==
    pc \in AfterAggregation =>
        /\ \A i \in DOMAIN data_cso : "GEOID" \in DOMAIN data_cso[i]
        /\ data_ejs = AssignEjResult(ejs_loaded, geo_towns_df, geo_watersheds_df)
        /\ data_egs_merge = EgsMerge(GroupBySum(data_cso, "GEOID", None), data_ejs)
        /\ data_ins_g_muni_j = GroupBySum(MergeOuter(data_cso, data_ejs), "Town", NullLabel)

\* every to_csv of run_analysis is done when a stage begins
WritesBeforeStages ==
    (pc = "tables_written" \/ StageBegun) =>
        \A n \in DOMAIN WrittenTables :
            n \in DOMAIN disk /\ disk[n] = WrittenTables[n]

\* every aggregate table is on disk when a stage begins, and at the end of a
\* run with the three switches off
AggregateTablesOnDisk ==
    (StageBegun \/ (pc = "run_done" /\ ~ make_maps /\ ~ make_charts /\ ~ make_regression)) =>
        \A n \in DOMAIN AggregateTables :
            n \in DOMAIN disk /\ disk[n] = AggregateTables[n]

\* C30: run_analysis empties the fact file first, assigns and labels before
\* it aggregates, aggregates the labelled demographic table, and has every
\* aggregate table on disk before any map, chart or regression stage begins,
\* so also after a failed stage and after a run with the three switches off.
C30_StepOrder ==
    /\ FactFileEmptiedFirst
    /\ LabelledBeforeAggregation
    /\ WritesBeforeStages
    /\ AggregateTablesOnDisk

====
